---- MODULE Spec2Model ----
(***************************************************************************)
(* A model of the boolean-expression parser (osh/bool_parse.py) and of the *)
(* builtins module (core/builtin.py): name resolution, getopts, wait, the  *)
(* field assembly of read, echo, unset, cd and shift.                      *)
(*                                                                         *)
(* The parser is a recursive-descent parser over a stream of words.  It is *)
(* modelled as a machine with an explicit call stack: one frame per active *)
(* Python call, one action per stretch of code between two calls.          *)
(***************************************************************************)
EXTENDS Integers, Sequences, FiniteSets, TLC

VARIABLES
  input,      \* the words the word parser will return, in order
  entry,      \* the public entry point called: "Parse" or "ParseForBuiltin"
  pos,        \* number of words of input the word parser has handed out
  words,      \* BoolParser.words: one word, or two with the lookahead
  cur_word,   \* BoolParser.cur_word
  op_id,      \* BoolParser.op_id
  b_kind,     \* BoolParser.b_kind
  stack,      \* the Python call stack, innermost call last
  ret,        \* the value returned by the last call that returned
  result,     \* outcome of the entry point: an AST, or the error raised
  readLog,    \* every ReadWord call so far: the word returned and the lex mode
  curLog,     \* every word that has been cur_word, in order
  regexLog,   \* every string passed to libc.regex_parse
  run,        \* 1 for the first parser, 2 for a second parser on a derived input
  variant,    \* how the input of run 2 was derived from that of run 1
  first,      \* the outcome of run 1
  firstInput  \* the input of run 1

VARIABLES
  funcs,      \* the names of the functions the user has defined
  path_val,   \* the value of the variable that holds the colon-separated path list
  files,      \* the paths that exist in the file system
  call        \* the last call of 'command' or 'type': its arguments and its effects

VARIABLES
  mem,            \* the variable store: positional arguments and global variables
  getopts_cache,  \* _GETOPTS_CACHE: spec string -> {flag, arity}
  getopts         \* the calls of 'getopts' made so far: arguments and effects

VARIABLES
  procs,          \* the child processes: exit status, and whether os.wait has returned it
  jobs,           \* JobState.jobs: job id -> job
  last_status,    \* Waiter.last_status
  wait            \* the call of 'wait': arguments, position and effects

VARIABLES
  stdin,          \* the lines 'read' has read from standard input so far
  read            \* the call of 'read': arguments, position and effects

VARIABLES
  builtin,        \* the last call of echo, unset, export, cd, pushd, popd, dirs,
                  \* shift or set: arguments and effects
  stdout,         \* what the call has written to standard output
  readonly,       \* the names of the variables that have the readonly flag
  exported,       \* the names of the variables that have the exported flag
  declared,       \* the names of the variables that exist and have no value
  exec_opts,      \* the shell options: name -> on or off
  cwd,            \* the working directory of the process
  dir_stack       \* DirStack: the directories pushed by pushd

pvars == <<input, entry, pos, words, cur_word, op_id, b_kind, stack, ret, result,
           readLog, curLog, regexLog, run, variant, first, firstInput>>
rvars == <<funcs, path_val, files, call>>
gvars == <<getopts_cache, getopts>>
wvars == <<procs, jobs, last_status, wait>>
fvars == <<stdin, read>>
bvars == <<builtin, stdout, readonly, exported, declared, exec_opts, cwd, dir_stack>>
vars == <<pvars, rvars, mem, gvars, wvars, fvars, bvars>>

\* the variables outside the boolean parser
notParser == <<rvars, mem, gvars, wvars, fvars, bvars>>
\* the variables outside the name resolution
notResolve == <<pvars, mem, gvars, wvars, fvars, bvars>>
\* the variables outside getopts and the variable store
notGetOpts == <<pvars, rvars, wvars, fvars, bvars>>
\* the variables outside wait and the variable store
notWait == <<pvars, rvars, gvars, fvars, bvars>>
\* the variables outside read and the variable store
notRead == <<pvars, rvars, gvars, wvars, bvars>>
\* the variables outside echo, unset, cd and shift, the variable store and the
\* function table
notBuiltin == <<pvars, path_val, files, call, gvars, wvars, fvars>>

----------------------------------------------------------------------------
(* Words and their classification                                          *)

EofWord == ""
NoWord == "<None>"
NL == "\n"

Operands == {"a", "b", "$x", "[bad"}

\* word.BoolId: the Id of a word, by its text
BoolId(w) ==
  CASE w = "-z" -> "BoolUnary_z"
    [] w = "-a" -> "BoolUnary_a"
    [] w = "-o" -> "BoolUnary_o"
    [] w = "==" -> "BoolBinary_DEqual"
    [] w = "=~" -> "BoolBinary_EqualTilde"
    [] w = "<" -> "Redir_Less"
    [] w = "!" -> "KW_Bang"
    [] w = "&&" -> "Op_DAmp"
    [] w = "||" -> "Op_DPipe"
    [] w = "(" -> "Op_LParen"
    [] w = ")" -> "Op_RParen"
    [] w = NL -> "Op_Newline"
    [] w = "]]" -> "Lit_DRightBracket"
    [] w = EofWord -> "Eof_Real"
    [] w = NoWord -> "Undefined_Tok"
    [] OTHER -> "Word_Compound"

\* LookupKind: the Kind of an Id
LookupKind(id) ==
  CASE id \in {"BoolUnary_z", "BoolUnary_a", "BoolUnary_o"} -> "BoolUnary"
    [] id \in {"BoolBinary_DEqual", "BoolBinary_EqualTilde"} -> "BoolBinary"
    [] id = "Redir_Less" -> "Redir"
    [] id = "KW_Bang" -> "KW"
    [] id \in {"Op_DAmp", "Op_DPipe", "Op_LParen", "Op_RParen", "Op_Newline"} -> "Op"
    [] id = "Lit_DRightBracket" -> "Lit"
    [] id = "Eof_Real" -> "Eof"
    [] id = "Word_Compound" -> "Word"
    [] OTHER -> "Undefined"

\* word.StaticEval: (ok, string); a word with a substitution is not static
StaticEval(w) == [ok |-> w # "$x", s |-> w]

\* libc.regex_parse raises RuntimeError on a malformed pattern
RegexParseRaises(s) == s = "[bad"

\* WordParser.ReadWord: the next word of the stream, Eof for ever at its end
ReadWord == IF pos < Len(input) THEN input[pos + 1] ELSE EofWord

----------------------------------------------------------------------------
(* AST nodes                                                               *)

NoNode == <<>>
LogicalOr(l, r) == <<"LogicalOr", l, r>>
LogicalAnd(l, r) == <<"LogicalAnd", l, r>>
LogicalNot(c) == <<"LogicalNot", c>>
BoolUnary(op, w) == <<"BoolUnary", op, w>>
BoolBinary(op, l, r) == <<"BoolBinary", op, l, r>>
WordTest(w) == <<"WordTest", w>>

----------------------------------------------------------------------------
(* Call stack                                                              *)

Frame(fn, pc) ==
  [fn |-> fn, pc |-> pc, node |-> NoNode, op |-> "", w |-> NoWord, right |-> NoWord,
   t2 |-> NoWord, mode |-> ""]
NextFrame(lex_mode) == [Frame("_Next", "loop") EXCEPT !.mode = lex_mode]

Running == stack # <<>>
Top == stack[Len(stack)]
At(fn, pc) == Running /\ Top.fn = fn /\ Top.pc = pc
Popped == SubSeq(stack, 1, Len(stack) - 1)
\* the current frame goes on as f and calls callee
Call(f, callee) == Append([stack EXCEPT ![Len(stack)] = f], callee)

NoResult == [status |-> "none", node |-> NoNode, msg |-> "", word |-> NoWord]
Returned(node) == [status |-> "ok", node |-> node, msg |-> "", word |-> NoWord]
\* util.p_die(msg, word=w): a parse error that carries the word
ParseError(msg, w) == [status |-> "error", node |-> NoNode, msg |-> msg, word |-> w]
AssertionError == [status |-> "assert", node |-> NoNode, msg |-> "", word |-> NoWord]

lexvars == <<pos, words, cur_word, op_id, b_kind, readLog, curLog>>
runvars == <<input, entry, run, variant, first, firstInput>>

\* an exception unwinds the whole stack
Raise(e) ==
  /\ result' = e
  /\ stack' = <<>>
  /\ UNCHANGED <<notParser, lexvars, runvars, ret, regexLog>>

\* control moves on within the parser; the lexer state is untouched
Goto(newStack, newRet) ==
  /\ stack' = newStack
  /\ ret' = newRet
  /\ UNCHANGED <<notParser, lexvars, runvars, result, regexLog>>

----------------------------------------------------------------------------
(* _Next, _NextOne, _LookAhead                                             *)

\* a bug: the lookahead is not deleted from the buffer once it is current
NextWords_KeepsLookAhead(n, w) ==
  IF n = 2 THEN <<w, w>> ELSE IF n \in {0, 1} THEN <<w>> ELSE words

\* BoolParser.words after _NextOne made w the current word: the lookahead, if
\* any, has moved to the front
NextWords(n, w) == IF n \in {0, 1, 2} THEN <<w>> ELSE words

\* one round of the loop of _Next: _NextOne, then the test for a newline
NextOne ==
  /\ At("_Next", "loop")
  /\ LET n == Len(words)
         lex_mode == Top.mode
     IN IF n = 2 /\ lex_mode # "DBRACKET"
        THEN Raise(AssertionError)
        ELSE LET w == IF n = 2 THEN words[2] ELSE IF n \in {0, 1} THEN ReadWord
                      ELSE cur_word
                 reads == n \in {0, 1}
                 id == BoolId(w)
             IN /\ words' = NextWords(n, w)
                /\ cur_word' = w
                /\ pos' = IF reads /\ pos < Len(input) THEN pos + 1 ELSE pos
                /\ readLog' = IF reads THEN Append(readLog, [w |-> w, mode |-> lex_mode])
                              ELSE readLog
                /\ curLog' = Append(curLog, w)
                /\ op_id' = id
                /\ b_kind' = LookupKind(id)
                /\ stack' = IF id # "Op_Newline" THEN Popped ELSE stack
                /\ UNCHANGED <<notParser, runvars, ret, result, regexLog>>

----------------------------------------------------------------------------
(* Parse, ParseForBuiltin                                                  *)

ParseStart ==
  /\ Running /\ Top.fn \in {"Parse", "ParseForBuiltin"} /\ Top.pc = "start"
  /\ Goto(Call([Top EXCEPT !.pc = "expr"], NextFrame("DBRACKET")), ret)

ParseCallExpr ==
  /\ Running /\ Top.fn \in {"Parse", "ParseForBuiltin"} /\ Top.pc = "expr"
  /\ Goto(Call([Top EXCEPT !.pc = "check"], Frame("ParseExpr", "start")), ret)

\* a bug: Parse returns the node whatever the current word is
ParseCheck_NoCheck ==
  /\ At("Parse", "check")
  /\ result' = Returned(ret)
  /\ stack' = <<>>
  /\ UNCHANGED <<notParser, lexvars, runvars, ret, regexLog>>

\* a bug: Parse reads the word after ]] before it returns
ParseCheck_ReadsOn ==
  /\ At("Parse", "check")
  /\ IF op_id # "Lit_DRightBracket"
     THEN Raise(ParseError("Expected ]]", cur_word))
     ELSE /\ result' = Returned(ret)
          /\ stack' = <<>>
          /\ readLog' = Append(readLog, [w |-> ReadWord, mode |-> "DBRACKET"])
          /\ pos' = IF pos < Len(input) THEN pos + 1 ELSE pos
          /\ UNCHANGED <<notParser, words, cur_word, op_id, b_kind, curLog, runvars, ret,
                       regexLog>>

ParseCheck ==
  /\ At("Parse", "check")
  /\ IF op_id # "Lit_DRightBracket"
     THEN Raise(ParseError("Expected ]]", cur_word))
     ELSE /\ result' = Returned(ret)
          /\ stack' = <<>>
          /\ UNCHANGED <<notParser, lexvars, runvars, ret, regexLog>>

ParseForBuiltinCheck ==
  /\ At("ParseForBuiltin", "check")
  /\ IF op_id # "Eof_Real"
     THEN Raise(ParseError("Unexpected trailing word in test expression", cur_word))
     ELSE /\ result' = Returned(ret)
          /\ stack' = <<>>
          /\ UNCHANGED <<notParser, lexvars, runvars, ret, regexLog>>

----------------------------------------------------------------------------
(* ParseExpr, ParseTerm, ParseNegatedFactor                                *)

IsOrOp(id) == id \in {"Op_DPipe", "BoolUnary_o"}
IsAndOp(id) == id \in {"Op_DAmp", "BoolUnary_a"}

ExprStart ==
  /\ At("ParseExpr", "start")
  /\ Goto(Call([Top EXCEPT !.pc = "left"], Frame("ParseTerm", "start")), ret)

ExprLeft ==
  /\ At("ParseExpr", "left")
  /\ IF IsOrOp(op_id)
     THEN Goto(Call([Top EXCEPT !.pc = "right", !.node = ret], NextFrame("DBRACKET")),
               ret)
     ELSE Goto(Popped, ret)

\* a bug: the right side of OR is a Term, so a second OR ends the expression
ExprRight_Term ==
  /\ At("ParseExpr", "right")
  /\ Goto(Call([Top EXCEPT !.pc = "ret"], Frame("ParseTerm", "start")), ret)

ExprRight ==
  /\ At("ParseExpr", "right")
  /\ Goto(Call([Top EXCEPT !.pc = "ret"], Frame("ParseExpr", "start")), ret)

ExprReturn ==
  /\ At("ParseExpr", "ret")
  /\ Goto(Popped, LogicalOr(Top.node, ret))

TermStart ==
  /\ At("ParseTerm", "start")
  /\ Goto(Call([Top EXCEPT !.pc = "left"], Frame("ParseNegatedFactor", "start")), ret)

TermLeft ==
  /\ At("ParseTerm", "left")
  /\ IF IsAndOp(op_id)
     THEN Goto(Call([Top EXCEPT !.pc = "right", !.node = ret], NextFrame("DBRACKET")),
               ret)
     ELSE Goto(Popped, ret)

\* a bug: the right side of AND is an Expr, so AND binds no tighter than OR
TermRight_Expr ==
  /\ At("ParseTerm", "right")
  /\ Goto(Call([Top EXCEPT !.pc = "ret"], Frame("ParseExpr", "start")), ret)

TermRight ==
  /\ At("ParseTerm", "right")
  /\ Goto(Call([Top EXCEPT !.pc = "ret"], Frame("ParseTerm", "start")), ret)

TermReturn ==
  /\ At("ParseTerm", "ret")
  /\ Goto(Popped, LogicalAnd(Top.node, ret))

NegatedStart ==
  /\ At("ParseNegatedFactor", "start")
  /\ IF op_id = "KW_Bang"
     THEN Goto(Call([Top EXCEPT !.pc = "child"], NextFrame("DBRACKET")), ret)
     ELSE Goto(Call([Top EXCEPT !.pc = "plain"], Frame("ParseFactor", "start")), ret)

NegatedChild ==
  /\ At("ParseNegatedFactor", "child")
  /\ Goto(Call([Top EXCEPT !.pc = "not"], Frame("ParseFactor", "start")), ret)

NegatedReturn ==
  /\ Running /\ Top.fn = "ParseNegatedFactor" /\ Top.pc \in {"not", "plain"}
  /\ Goto(Popped, IF Top.pc = "not" THEN LogicalNot(ret) ELSE ret)

----------------------------------------------------------------------------
(* ParseFactor                                                             *)

\* a bug: the redirection pun for < and > is forgotten
IsBinaryLookAhead_NoRedir(t2_b_kind) == t2_b_kind = "BoolBinary"

\* the lookahead word commits ParseFactor to the binary form
IsBinaryLookAhead(t2_b_kind) == t2_b_kind \in {"BoolBinary", "Redir"}

\* the lex mode of the word after the operator of a binary test
\* a bug: the right word of =~ is read like any other word
RightLexMode_DBracket(is_regex) == "DBRACKET"

RightLexMode(is_regex) == IF is_regex THEN "BASH_REGEX" ELSE "DBRACKET"

\* a bug: the right word of =~ is checked whether static or not
RegexChecked_Always(is_regex, right) == is_regex

\* the right word of =~ goes to libc.regex_parse when it is static
RegexChecked(is_regex, right) == is_regex /\ StaticEval(right).ok

\* Factor : UNARY_OP WORD; the operator is current
FactorUnary ==
  /\ At("ParseFactor", "start")
  /\ b_kind = "BoolUnary"
  /\ Goto(Call([Top EXCEPT !.pc = "unary_w", !.op = op_id], NextFrame("DBRACKET")), ret)

FactorUnaryWord ==
  /\ At("ParseFactor", "unary_w")
  /\ Goto(Call([Top EXCEPT !.pc = "unary_ret", !.w = cur_word], NextFrame("DBRACKET")),
          ret)

FactorUnaryReturn ==
  /\ At("ParseFactor", "unary_ret")
  /\ Goto(Popped, BoolUnary(Top.op, Top.w))

\* a word is current: _LookAhead reads one more word and keeps it in words
FactorLookAhead ==
  /\ At("ParseFactor", "start")
  /\ b_kind = "Word"
  /\ IF Len(words) # 1
     THEN Raise(AssertionError)
     ELSE /\ words' = Append(words, ReadWord)
          /\ pos' = IF pos < Len(input) THEN pos + 1 ELSE pos
          /\ readLog' = Append(readLog, [w |-> ReadWord, mode |-> "DBRACKET"])
          /\ stack' = [stack EXCEPT ![Len(stack)] =
                         [Top EXCEPT !.pc = "peeked", !.t2 = ReadWord]]
          /\ UNCHANGED <<notParser, cur_word, op_id, b_kind, curLog, runvars, ret,
                       result, regexLog>>

\* Factor : WORD BINARY_OP WORD; the left word is current
FactorBinary ==
  /\ At("ParseFactor", "peeked")
  /\ IsBinaryLookAhead(LookupKind(BoolId(Top.t2)))
  /\ Goto(Call([Top EXCEPT !.pc = "binary_op", !.w = cur_word], NextFrame("DBRACKET")),
          ret)

FactorBinaryOp ==
  /\ At("ParseFactor", "binary_op")
  /\ LET is_regex == BoolId(Top.t2) = "BoolBinary_EqualTilde"
     IN Goto(Call([Top EXCEPT !.pc = "binary_right", !.op = op_id],
                  NextFrame(RightLexMode(is_regex))), ret)

\* the right word is current; a static regex is checked here
FactorBinaryRight ==
  /\ At("ParseFactor", "binary_right")
  /\ LET is_regex == BoolId(Top.t2) = "BoolBinary_EqualTilde"
         right == cur_word
         checked == RegexChecked(is_regex, right)
         regex_str == StaticEval(right).s
     IN /\ regexLog' = IF checked THEN Append(regexLog, regex_str) ELSE regexLog
        /\ IF checked /\ RegexParseRaises(regex_str)
           THEN /\ result' = ParseError("Error parsing regex", right)
                /\ stack' = <<>>
           ELSE /\ result' = result
                /\ stack' = Call([Top EXCEPT !.pc = "binary_ret", !.right = right],
                                 NextFrame("DBRACKET"))
        /\ UNCHANGED <<notParser, lexvars, runvars, ret>>

FactorBinaryReturn ==
  /\ At("ParseFactor", "binary_ret")
  /\ Goto(Popped, BoolBinary(Top.op, Top.w, Top.right))

\* Factor : WORD
FactorWord ==
  /\ At("ParseFactor", "peeked")
  /\ ~IsBinaryLookAhead(LookupKind(BoolId(Top.t2)))
  /\ Goto(Call([Top EXCEPT !.pc = "word_ret", !.w = cur_word], NextFrame("DBRACKET")),
          ret)

FactorWordReturn ==
  /\ At("ParseFactor", "word_ret")
  /\ Goto(Popped, WordTest(Top.w))

\* Factor : '(' Expr ')'
FactorParen ==
  /\ At("ParseFactor", "start")
  /\ b_kind \notin {"BoolUnary", "Word"}
  /\ op_id = "Op_LParen"
  /\ Goto(Call([Top EXCEPT !.pc = "paren_expr"], NextFrame("DBRACKET")), ret)

FactorParenExpr ==
  /\ At("ParseFactor", "paren_expr")
  /\ Goto(Call([Top EXCEPT !.pc = "paren_close"], Frame("ParseExpr", "start")), ret)

\* a bug: the parser does not advance past the ')'
FactorParenClose_NoAdvance ==
  /\ At("ParseFactor", "paren_close")
  /\ IF op_id # "Op_RParen"
     THEN Raise(ParseError("Expected )", cur_word))
     ELSE Goto(Popped, ret)

FactorParenClose ==
  /\ At("ParseFactor", "paren_close")
  /\ IF op_id # "Op_RParen"
     THEN Raise(ParseError("Expected )", cur_word))
     ELSE Goto(Call([Top EXCEPT !.pc = "paren_ret", !.node = ret], NextFrame("DBRACKET")),
               ret)

FactorParenReturn ==
  /\ At("ParseFactor", "paren_ret")
  /\ Goto(Popped, Top.node)

\* it's not WORD, UNARY_OP, or '('
FactorUnexpected ==
  /\ At("ParseFactor", "start")
  /\ b_kind \notin {"BoolUnary", "Word"}
  /\ op_id # "Op_LParen"
  /\ Raise(ParseError("Unexpected token in boolean expression", cur_word))

----------------------------------------------------------------------------
(* The inputs, and the parsers made on them                                *)

MaxLen == 2
MaxOperands == 3

SeqsUpTo(S, n) == UNION {[1..k -> S] : k \in 0..n}

UnaryWords == {"-z", "-a", "-o"}
BinaryWords == {"==", "=~", "<"}
AndWords == {"&&", "-a"}
OrWords == {"||", "-o"}

\* the words of [[ ]], and those the test builtin can be given: in test, && || ]]
\* and a newline are plain strings, and -a and -o are the logical operators
WordsOf(e) ==
  Operands \cup UnaryWords \cup BinaryWords \cup {"!", "(", ")"}
    \cup (IF e = "Parse" THEN {"&&", "||", NL, "]]"} ELSE {})
LogicalWordsOf(e) == IF e = "Parse" THEN AndWords \cup OrWords ELSE {"-a", "-o"}
ClosingOf(e) == IF e = "Parse" THEN <<"]]">> ELSE <<>>

\* single factors
Factors ==
  {<<w>> : w \in Operands} \cup {<<u, "a">> : u \in UnaryWords}
    \cup {<<"a", o, r>> : o \in BinaryWords, r \in Operands}

\* chains of n plain or negated words joined by logical operators
ChainFactors == {<<"a">>, <<"b">>, <<"!", "a">>}
RECURSIVE Chains(_, _)
Chains(n, e) ==
  IF n = 1 THEN ChainFactors
  ELSE {c \o <<o>> \o f : c \in Chains(n - 1, e), o \in LogicalWordsOf(e), f \in ChainFactors}

\* a chain of two in parentheses, then an operator and a word
ParenChains(e) ==
  {<<"(">> \o c \o <<")", o, w>> : c \in Chains(2, e), o \in LogicalWordsOf(e),
                                   w \in {"a", "b"}}

Insert(s, i, x) == SubSeq(s, 1, i) \o <<x>> \o SubSeq(s, i + 1, Len(s))
Delete(s, i) == SubSeq(s, 1, i - 1) \o SubSeq(s, i + 1, Len(s))

\* a factor or a chain of two, closed, with one word more or one word less
Bases(e) == {x \o ClosingOf(e) : x \in Factors \cup Chains(2, e)}
Perturbed(e) ==
  UNION {{Insert(b, i, x) : i \in 0..Len(b), x \in WordsOf(e)}
           \cup {Delete(b, i) : i \in 1..Len(b)} : b \in Bases(e)}

Inputs(e) ==
  SeqsUpTo(WordsOf(e), MaxLen)
    \cup Bases(e)
    \cup Perturbed(e)
    \cup UNION {{c \o ClosingOf(e) : c \in Chains(n, e)} : n \in 3..MaxOperands}
    \cup {c \o ClosingOf(e) : c \in ParenChains(e)}

\* BoolParser.__init__ on a word parser that will return the words of in
NewBoolParser(in, e) ==
  /\ input' = in
  /\ entry' = e
  /\ pos' = 0
  /\ words' = <<>>
  /\ cur_word' = NoWord
  /\ op_id' = "Undefined_Tok"
  /\ b_kind' = "Undefined"
  /\ stack' = <<Frame(e, "start")>>
  /\ ret' = NoNode
  /\ result' = NoResult
  /\ readLog' = <<>>
  /\ curLog' = <<>>
  /\ regexLog' = <<>>

\* a parser just made on the words of in, for the entry point e
ParserMade(in, e) ==
  /\ input = in
  /\ entry = e
  /\ pos = 0
  /\ words = <<>>
  /\ cur_word = NoWord
  /\ op_id = "Undefined_Tok"
  /\ b_kind = "Undefined"
  /\ ret = NoNode
  /\ result = NoResult
  /\ readLog = <<>>
  /\ curLog = <<>>
  /\ regexLog = <<>>
  /\ run = 1
  /\ variant = "none"
  /\ first = NoResult
  /\ firstInput = <<>>

ParserInit ==
  \E e \in {"Parse", "ParseForBuiltin"} :
    \E in \in Inputs(e) : ParserMade(in, e) /\ stack = <<Frame(e, "start")>>

\* no parser at work
ParserIdle == ParserMade(<<>>, "Parse") /\ stack = <<>>

Finished == ~Running /\ result.status # "none"

\* the expression of a finished run, without the closing ]] of [[ ]]
Expression == IF entry = "Parse" THEN SubSeq(input, 1, Len(input) - 1) ELSE input
Closing == IF entry = "Parse" THEN <<"]]">> ELSE <<>>

Derived(v) ==
  IF v = "paren" THEN <<"(">> \o Expression \o <<")">> \o Closing
  ELSE SelectSeq(input, LAMBDA w : w # NL)

\* the words held by the tests of an AST
RECURSIVE AstWords(_)
AstWords(n) ==
  CASE n[1] = "WordTest" -> {n[2]}
    [] n[1] = "BoolUnary" -> {n[3]}
    [] n[1] = "BoolBinary" -> {n[3], n[4]}
    [] n[1] = "LogicalNot" -> AstWords(n[2])
    [] OTHER -> AstWords(n[2]) \cup AstWords(n[3])

IsWord(w) == LookupKind(BoolId(w)) = "Word"

\* the run read a whole expression of the grammar: every word of the input was
\* used, and every operand is a WORD
WellFormed ==
  /\ result.status = "ok"
  /\ pos = Len(input)
  /\ \A w \in AstWords(result.node) : IsWord(w)

Derivable(v) ==
  IF v = "paren" THEN WellFormed
  ELSE \E i \in 1..Len(input) : input[i] = NL

\* a second parser, on the same expression in parentheses or without its newlines
Reparse ==
  /\ Finished
  /\ run = 1
  /\ \E v \in {"paren", "nonl"} :
       /\ Derivable(v)
       /\ variant' = v
       /\ NewBoolParser(Derived(v), entry)
  /\ run' = 2
  /\ first' = result
  /\ firstInput' = input
  /\ UNCHANGED notParser

ParserNext ==
  \/ NextOne
  \/ ParseStart \/ ParseCallExpr \/ ParseCheck \/ ParseForBuiltinCheck
  \/ ExprStart \/ ExprLeft \/ ExprRight \/ ExprReturn
  \/ TermStart \/ TermLeft \/ TermRight \/ TermReturn
  \/ NegatedStart \/ NegatedChild \/ NegatedReturn
  \/ FactorUnary \/ FactorUnaryWord \/ FactorUnaryReturn
  \/ FactorLookAhead \/ FactorBinary \/ FactorBinaryOp \/ FactorBinaryRight
  \/ FactorBinaryReturn \/ FactorWord \/ FactorWordReturn
  \/ FactorParen \/ FactorParenExpr \/ FactorParenClose \/ FactorParenReturn
  \/ FactorUnexpected
  \/ Reparse

----------------------------------------------------------------------------
(* Properties of the boolean parser                                        *)

Last(q) == q[Len(q)]
\* the i-th word the word parser returns
InputAt(i) == IF i <= Len(input) THEN input[i] ELSE EofWord
CloserId(e) == IF e = "Parse" THEN "Lit_DRightBracket" ELSE "Eof_Real"
TrailingMsg(e) == IF e = "Parse" THEN "Expected ]]"
                  ELSE "Unexpected trailing word in test expression"
LogicalNode(o, l, r) == IF o \in AndWords THEN LogicalAnd(l, r) ELSE LogicalOr(l, r)
Closed(x) == x \o ClosingOf(entry)

\* C1: AND binds tighter than OR and '!' tighter than AND, for && || and for -a -o:
\* x AND y OR z is Or(And(x, y), z), and ! x AND y is And(Not(x), y)
C1_Precedence ==
  Finished =>
    \A x \in Operands, y \in Operands, an \in AndWords :
      /\ input = Closed(<<"!", x, an, y>>)
           => result = Returned(LogicalAnd(LogicalNot(WordTest(x)), WordTest(y)))
      /\ \A z \in Operands, o \in OrWords :
           input = Closed(<<x, an, y, o, z>>)
             => result = Returned(LogicalOr(LogicalAnd(WordTest(x), WordTest(y)),
                                            WordTest(z)))

C1_Witness ==
  /\ Finished
  /\ input = Closed(<<"a", "-a", "b", "-o", "a">>)
  /\ result.status = "ok"
  /\ result.node[1] = "LogicalOr"

RECURSIVE JoinWords(_, _)
JoinWords(ws, os) ==
  IF Len(ws) = 1 THEN ws ELSE <<ws[1], os[1]>> \o JoinWords(Tail(ws), Tail(os))

RECURSIVE RightNested(_, _)
RightNested(ws, tag) ==
  IF Len(ws) = 1 THEN WordTest(ws[1])
  ELSE <<tag, WordTest(ws[1]), RightNested(Tail(ws), tag)>>

\* C2: a chain of three or more words joined by OR operators alone, or by AND
\* operators alone, nests to the right: x OR y OR z is Or(x, Or(y, z))
C2_RightAssociative ==
  Finished =>
    \A n \in 3..MaxOperands :
      Len(input) = 2 * n - 1 + Len(ClosingOf(entry)) =>
        \A ws \in [1..n -> {"a", "b"}] :
          /\ \A os \in [1..(n - 1) -> OrWords] :
               input = Closed(JoinWords(ws, os))
                 => result = Returned(RightNested(ws, "LogicalOr"))
          /\ \A os \in [1..(n - 1) -> AndWords] :
               input = Closed(JoinWords(ws, os))
                 => result = Returned(RightNested(ws, "LogicalAnd"))

C2_Witness ==
  /\ Finished
  /\ input = <<"a", "&&", "b", "&&", "a", "]]">>
  /\ result = Returned(LogicalAnd(WordTest("a"),
                                  LogicalAnd(WordTest("b"), WordTest("a"))))

\* C3: a well-formed expression in parentheses parses to the AST of the expression
\* alone, and ( x OR y ) AND z is And(Or(x, y), z)
C3_Parentheses ==
  Finished =>
    /\ (run = 2 /\ variant = "paren") => result = first
    /\ \A x \in {"a", "b"}, y \in {"a", "b"}, z \in {"a", "b"},
          o1 \in LogicalWordsOf(entry), o2 \in LogicalWordsOf(entry) :
         input = Closed(<<"(", x, o1, y, ")", o2, z>>)
           => result = Returned(LogicalNode(o2, LogicalNode(o1, WordTest(x), WordTest(y)),
                                            WordTest(z)))

C3_Witness ==
  /\ Finished
  /\ run = 2
  /\ variant = "paren"
  /\ firstInput = <<"a", "||", "!", "b", "]]">>
  /\ result.status = "ok"

\* a word after which the expression goes on, or that closes it
Continues(x) ==
  \/ IsAndOp(BoolId(x))
  \/ IsOrOp(BoolId(x))
  \/ BoolId(x) \in {"Op_Newline", CloserId(entry)}

\* C4: an AST is returned only when the word current after the expression is the
\* closing one (]] for Parse, end of input for ParseForBuiltin); any other word
\* after a complete expression is a parse error that carries that word
C4_TrailingWord ==
  Finished =>
    /\ result.status = "ok"
         => /\ curLog # <<>>
            /\ cur_word = Last(curLog)
            /\ BoolId(cur_word) = CloserId(entry)
            /\ result.node # NoNode
    /\ result.status # "ok" => result.node = NoNode
    /\ (/\ Len(input) >= 4
        /\ input[1] \in Operands /\ input[2] = "==" /\ input[3] \in Operands
        /\ ~Continues(input[4]))
         => result = ParseError(TrailingMsg(entry), input[4])
    /\ (/\ Len(input) >= 3
        /\ input[1] = "-z" /\ input[2] \in Operands
        /\ ~Continues(input[3]))
         => result = ParseError(TrailingMsg(entry), input[3])

C4_Witness ==
  /\ Finished
  /\ input = <<"a", "==", "b", ")", "]]">>
  /\ result = ParseError("Expected ]]", ")")

\* C5: newline words are never syntax: the input without its newlines has the
\* same outcome, the same AST or a parse error
C5_NewlinesSwallowed ==
  (Finished /\ run = 2 /\ variant = "nonl")
    => (result.status = first.status /\ result.node = first.node)

IsFactorFrame(f, pcs) == f.fn = "ParseFactor" /\ f.pc \in pcs

RECURSIVE LeftLeaf(_)
LeftLeaf(n) ==
  IF n[1] \in {"LogicalOr", "LogicalAnd", "LogicalNot"} THEN LeftLeaf(n[2]) ELSE n

\* C6: on a plain word ParseFactor reads one word more, and takes the binary
\* form exactly when that word is a binary test operator or a redirection; else
\* the word is a WordTest and the word read is the next current word
C6_LookAhead ==
  /\ At("ParseFactor", "peeked")
       => /\ Len(words) = 2
          /\ words = <<cur_word, Top.t2>>
          /\ Len(readLog) = Len(curLog) + 1
          /\ Last(readLog).w = Top.t2
  /\ \A i \in 1..Len(stack) :
       /\ IsFactorFrame(stack[i], {"binary_op", "binary_right", "binary_ret"})
            => LookupKind(BoolId(stack[i].t2)) \in {"BoolBinary", "Redir"}
       /\ IsFactorFrame(stack[i], {"word_ret"})
            => LookupKind(BoolId(stack[i].t2)) \notin {"BoolBinary", "Redir"}
  /\ At("ParseFactor", "binary_op") => cur_word = Top.t2
  /\ (At("ParseFactor", "word_ret") /\ Top.t2 # NL) => cur_word = Top.t2
  /\ (Finished /\ result.status = "ok" /\ IsWord(InputAt(1)))
       => LET leaf == LeftLeaf(result.node)
          IN IF LookupKind(BoolId(InputAt(2))) \in {"BoolBinary", "Redir"}
             THEN SubSeq(leaf, 1, 3) = <<"BoolBinary", BoolId(input[2]), input[1]>>
             ELSE leaf = WordTest(input[1])

C6_Witness ==
  /\ Finished
  /\ input = <<"a", "<", "b", "]]">>
  /\ result = Returned(BoolBinary("Redir_Less", "a", "b"))

LogWords == [i \in 1..Len(readLog) |-> readLog[i].w]

\* C7: the buffer holds one word after each advance and two only between a
\* lookahead and the next advance; the words read become current in the order
\* read; neither assertion fails
C7_Buffer ==
  /\ Len(words) <= 2
  /\ result.status # "assert"
  /\ (words = <<>>) <=> (curLog = <<>>)
  /\ curLog # <<>> => (words[1] = cur_word /\ cur_word = Last(curLog))
  /\ LogWords = curLog \o (IF Len(words) = 2 THEN <<words[2]>> ELSE <<>>)
  /\ Len(words) = 2
       => /\ Running
          /\ \/ At("ParseFactor", "peeked")
             \/ /\ At("_Next", "loop")
                /\ Top.mode = "DBRACKET"
                /\ IsFactorFrame(stack[Len(stack) - 1], {"binary_op", "word_ret"})
  /\ (At("ParseFactor", "start") /\ b_kind = "Word") => Len(words) = 1

C7_Witness ==
  /\ At("_Next", "loop")
  /\ Len(words) = 2
  /\ words[2] = "=~"
  /\ Len(curLog) > 2

Count(q, x) == Cardinality({i \in 1..Len(q) : q[i] = x})

\* C8: the right word of =~ goes to the regex checker when it is static, and a
\* rejected pattern is a parse error on that word; a word that is not static is
\* not checked; no other operator has its right word checked
C8_Regex ==
  /\ \A i \in 1..Len(regexLog) : StaticEval(regexLog[i]).ok
  /\ Len(regexLog) <= Count(curLog, "=~")
  /\ result.msg = "Error parsing regex"
       => /\ regexLog # <<>>
          /\ result = ParseError("Error parsing regex", Last(regexLog))
          /\ RegexParseRaises(Last(regexLog))
          /\ cur_word = result.word
  /\ \A i \in 1..Len(stack) :
       IsFactorFrame(stack[i], {"binary_ret"})
         => IF stack[i].op = "BoolBinary_EqualTilde" /\ StaticEval(stack[i].right).ok
            THEN regexLog # <<>> /\ ~RegexParseRaises(stack[i].right)
            ELSE TRUE
  /\ (Finished /\ Len(input) >= 3 /\ IsWord(input[1]) /\ input[2] \in BinaryWords
      /\ IsWord(input[3]))
       => LET r == input[3]
          IN IF input[2] # "=~" THEN regexLog = <<>> /\ result.msg # "Error parsing regex"
             ELSE IF ~StaticEval(r).ok THEN regexLog = <<>> /\ result.msg # "Error parsing regex"
             ELSE IF RegexParseRaises(r)
               THEN regexLog = <<r>> /\ result = ParseError("Error parsing regex", r)
               ELSE regexLog = <<r>> /\ result.msg # "Error parsing regex"
  /\ (Finished /\ \E r \in Operands : input = Closed(<<"a", "=~", r>>)
      /\ ~(StaticEval(input[3]).ok /\ RegexParseRaises(input[3])))
       => result = Returned(BoolBinary("BoolBinary_EqualTilde", "a", input[3]))

C8_Witness ==
  /\ Finished
  /\ input = <<"a", "=~", "[bad", "]]">>
  /\ result = ParseError("Error parsing regex", "[bad")
  /\ regexLog = <<"[bad">>

C8_WitnessNotStatic ==
  /\ Finished
  /\ input = <<"a", "=~", "$x", "]]">>
  /\ result.status = "ok"
  /\ regexLog = <<>>

\* C9: every operand of a returned AST is a WORD
C9_OperandsAreWords ==
  (Finished /\ result.status = "ok") => \A w \in AstWords(result.node) : IsWord(w)

\* the i-th word read is the right word of a =~ operator, or a newline before
\* it: after the words read before it, left out the newlines just before it,
\* the last one is =~ and follows a WORD
AfterRegexOp(i) ==
  \E j \in 2..(i - 1) :
    /\ readLog[j].w = "=~"
    /\ IsWord(readLog[j - 1].w)
    /\ \A k \in (j + 1)..(i - 1) : readLog[k].w = NL

\* C26: the word read right after a =~ operator, and any newline skipped on
\* the way to it, is asked for in BASH_REGEX mode, and every other word, the
\* lookahead words and the word after the regex operand among them, in
\* DBRACKET mode; a buffered lookahead is never taken under BASH_REGEX mode
C26_LexModes ==
  /\ \A i \in 1..Len(readLog) :
       readLog[i].mode = IF AfterRegexOp(i) THEN "BASH_REGEX" ELSE "DBRACKET"
  /\ (At("_Next", "loop") /\ Len(words) = 2) => Top.mode = "DBRACKET"
  /\ At("ParseFactor", "peeked") => Last(readLog).mode = "DBRACKET"
  /\ result.status # "assert"

\* a newline and the regex were read in BASH_REGEX mode, and the word after
\* the regex in DBRACKET mode
C26_Witness ==
  /\ result.status = "ok"
  /\ \E i \in 3..Len(readLog) :
       /\ readLog[i - 2].w = NL /\ readLog[i - 2].mode = "BASH_REGEX"
       /\ readLog[i - 1].w = "a" /\ readLog[i - 1].mode = "BASH_REGEX"
       /\ readLog[i].mode = "DBRACKET"

\* C28: when Parse returns an AST, the last word it got from the word parser
\* is the closing ]]: it is the current word, no lookahead is buffered and no
\* word after it was read; when every operand is a WORD it is the first ]] of
\* the input
C28_LastReadIsClosing ==
  (entry = "Parse" /\ result.status = "ok") =>
    /\ readLog # <<>>
    /\ Last(readLog).w = "]]"
    /\ cur_word = "]]"
    /\ words = <<"]]">>
    /\ pos = Len(readLog)
    /\ LogWords = SubSeq(input, 1, pos)
    /\ (\A w \in AstWords(result.node) : IsWord(w))
         => \A i \in 1..(pos - 1) : input[i] # "]]"

\* Parse has returned a binary test and has left the word after ]] unread
C28_Witness ==
  /\ entry = "Parse"
  /\ result.status = "ok"
  /\ result.node[1] = "BoolBinary"
  /\ pos < Len(input)
  /\ input[pos] = "]]"

----------------------------------------------------------------------------
(* Name resolution: _ResolveNames, and the builtins 'command' and 'type'   *)
(*                                                                         *)
(* A string that holds a path is a sequence of characters; the names asked *)
(* for are strings, spelled out by Chars where a path is made of them.     *)

MaxNames == 2

None == "<None>"

\* _SPECIAL_BUILTINS: these can't be redefined by functions
SpecialBuiltins ==
  {"break", ":", "continue", ".", "eval", "exec", "exit", "export", "readonly",
   "return", "set", "shift", "times", "trap", "unset", "local", "declare"}

\* the names for which ResolveSpecial returns a builtin
ResolveSpecialNames == {"export", "exit", ":"}

\* the names for which Resolve returns a builtin
ResolveOrdinaryNames ==
  {"read", "echo", "cd", "shift", "pushd", "popd", "dirs", "source", ".", "trap",
   "umask", "eval", "exec", "wait", "jobs", "set", "shopt", "unset", "complete",
   "compgen", "true", "false", "test", "[", "getopts", "command", "type", "help",
   "debug-line"}

\* lex.IsOtherBuiltin: declare, continue, etc.
IsOtherBuiltin(name) ==
  name \in {"declare", "typeset", "local", "readonly", "break", "continue", "return",
            "exit"}

\* lex.IsKeyword
IsKeyword(name) ==
  name \in {"if", "then", "else", "elif", "fi", "for", "while", "until", "do", "done",
            "case", "esac", "in", "function", "time", "[[", "!", "{", "}"}

\* str.split(':')
RECURSIVE SplitColon(_)
SplitColon(s) ==
  IF \A i \in 1..Len(s) : s[i] # ":" THEN <<s>>
  ELSE LET i == CHOOSE k \in 1..Len(s) : s[k] = ":" /\ \A j \in 1..(k - 1) : s[j] # ":"
       IN <<SubSeq(s, 1, i - 1)>> \o SplitColon(SubSeq(s, i + 1, Len(s)))

\* the characters of a name
Chars(name) ==
  CASE name = "export" -> <<"e", "x", "p", "o", "r", "t">>
    [] name = "eval" -> <<"e", "v", "a", "l">>
    [] name = "declare" -> <<"d", "e", "c", "l", "a", "r", "e">>
    [] name = "times" -> <<"t", "i", "m", "e", "s">>
    [] name = "echo" -> <<"e", "c", "h", "o">>
    [] name = "if" -> <<"i", "f">>
    [] name = "ls" -> <<"l", "s">>
    [] name = "nosuch" -> <<"n", "o", "s", "u", "c", "h">>
    [] name = "/ls" -> <<"/", "l", "s">>

\* os.path.join(path_dir, name): an absolute name stands alone, and a slash
\* goes between the two unless the directory is empty or ends in one
PathJoin(path_dir, name) ==
  IF Chars(name) # <<>> /\ Head(Chars(name)) = "/" THEN Chars(name)
  ELSE IF path_dir = <<>> THEN Chars(name)
  ELSE IF path_dir[Len(path_dir)] = "/" THEN path_dir \o Chars(name)
  ELSE path_dir \o <<"/">> \o Chars(name)

\* the loop over path_list: the first directory that holds the name
RECURSIVE FindFile(_, _, _)
FindFile(path_list, name, fs) ==
  IF path_list = <<>> THEN <<None, <<None>>>>
  ELSE LET full_path == PathJoin(Head(path_list), name)
       IN IF full_path \in fs THEN <<"file", full_path>>
          ELSE FindFile(Tail(path_list), name, fs)

\* the body of the loop of _ResolveNames: the (kind, argument) pair of one name
ResolveName(name, fns, path_list, fs) ==
  IF name \in fns THEN <<"function", <<name>>>>
  ELSE IF name \in ResolveOrdinaryNames THEN <<"builtin", <<name>>>>
  ELSE IF name \in ResolveSpecialNames THEN <<"builtin", <<name>>>>
  ELSE IF IsOtherBuiltin(name) THEN <<"builtin", <<name>>>>
  ELSE IF IsKeyword(name) THEN <<"keyword", <<name>>>>
  ELSE FindFile(path_list, name, fs)

ResolveNames(names, fns, pv, fs) ==
  LET path_list == IF pv.tag = "Str" THEN SplitColon(pv.s) ELSE <<>>
  IN [i \in 1..Len(names) |-> ResolveName(names[i], fns, path_list, fs)]

\* what the loops of Command and Type print, one line for each resolved name
RECURSIVE Printed(_, _)
Printed(results, column) ==
  IF results = <<>> THEN <<>>
  ELSE IF Head(results)[1] = None THEN Printed(Tail(results), column)
  ELSE <<Head(results)[column]>> \o Printed(Tail(results), column)

AllResolved(results) == \A i \in 1..Len(results) : results[i][1] # None

NoCall ==
  [builtin |-> "none", names |-> <<>>, flag |-> FALSE, results |-> <<>>, out |-> <<>>,
   status |-> 0]

\* command [-v] names
Command(names, v) ==
  /\ call.builtin = "none"
  /\ call' = IF v
             THEN LET results == ResolveNames(names, funcs, path_val, files)
                  IN [builtin |-> "command", names |-> names, flag |-> v,
                      results |-> results, out |-> Printed(results, 2),
                      status |-> IF AllResolved(results) THEN 0 ELSE 1]
             ELSE [builtin |-> "command", names |-> names, flag |-> v,
                   results |-> <<>>, out |-> <<>>, status |-> 1]
  /\ UNCHANGED <<funcs, path_val, files, notResolve>>

\* type [-t] names
Type(names, t) ==
  /\ call.builtin = "none"
  /\ call' = LET results == ResolveNames(names, funcs, path_val, files)
             IN [builtin |-> "type", names |-> names, flag |-> t, results |-> results,
                 out |-> Printed(results, 1),
                 status |-> IF t /\ AllResolved(results) THEN 0 ELSE 1]
  /\ UNCHANGED <<funcs, path_val, files, notResolve>>

\* the names asked for, the functions, the path lists and the files of the model
AskedNames == {"export", "eval", "declare", "times", "echo", "if", "ls", "nosuch", "/ls"}
FunctionNames == {"export", "eval", "echo"}
PathValues ==
  {[tag |-> "Undef", s |-> <<>>],
   \* /bin:/usr/bin
   [tag |-> "Str", s |-> <<"/", "b", "i", "n", ":", "/", "u", "s", "r", "/", "b", "i", "n">>],
   \* /usr/bin:/bin
   [tag |-> "Str", s |-> <<"/", "u", "s", "r", "/", "b", "i", "n", ":", "/", "b", "i", "n">>],
   \* /opt::/usr/bin
   [tag |-> "Str", s |-> <<"/", "o", "p", "t", ":", ":", "/", "u", "s", "r", "/", "b", "i", "n">>],
   \* /bin/:/usr/bin
   [tag |-> "Str", s |-> <<"/", "b", "i", "n", "/", ":", "/", "u", "s", "r", "/", "b", "i", "n">>]}

\* /bin/ls, /usr/bin/ls, /usr/bin/times and /ls; nosuch is in the working directory
BinLs == <<"/", "b", "i", "n", "/", "l", "s">>
UsrBinLs == <<"/", "u", "s", "r", "/", "b", "i", "n", "/", "l", "s">>
UsrBinTimes == <<"/", "u", "s", "r", "/", "b", "i", "n", "/", "t", "i", "m", "e", "s">>
RootLs == <<"/", "l", "s">>
FileSystems == {{BinLs, UsrBinLs, UsrBinTimes}, {UsrBinLs, RootLs, Chars("nosuch")}}

\* the arguments of the call to come are in call
ResolveInit ==
  /\ funcs \in SUBSET FunctionNames
  /\ path_val \in PathValues
  /\ files \in FileSystems
  /\ \E names \in SeqsUpTo(AskedNames, MaxNames) \ {<<>>}, f \in BOOLEAN :
       call = [NoCall EXCEPT !.names = names, !.flag = f]

ResolveIdle ==
  /\ funcs = {}
  /\ path_val = [tag |-> "Undef", s |-> <<>>]
  /\ files = {}
  /\ call = NoCall

CallCommand == Command(call.names, call.flag)

CallType == Type(call.names, call.flag)

ResolveNext == CallCommand \/ CallType

----------------------------------------------------------------------------
(* Properties of the name resolution                                       *)

\* C10: a function named like a special builtin does not hide it: the name
\* resolves to kind 'builtin'
C10_SpecialBuiltinWins ==
  \A i \in 1..Len(call.results) :
    (call.names[i] \in SpecialBuiltins /\ call.names[i] \in funcs)
      => call.results[i][1] = "builtin"

\* the files of the file systems above that have the execute permission
Executables == {UsrBinLs, UsrBinTimes, RootLs}

\* the directories of the path list of the call
PathList == IF path_val.tag = "Str" THEN SplitColon(path_val.s) ELSE <<>>

\* name is an executable file of the k-th directory of the path list
ExecutableAt(k, name) ==
  /\ PathJoin(PathList[k], name) \in files
  /\ PathJoin(PathList[k], name) \in Executables

\* the result the resolution order gives for a name that is no special builtin
IsExpected(name, r) ==
  IF name \in funcs THEN r = <<"function", <<name>>>>
  ELSE IF name \in ResolveOrdinaryNames \/ IsOtherBuiltin(name)
    THEN r = <<"builtin", <<name>>>>
  ELSE IF IsKeyword(name) THEN r = <<"keyword", <<name>>>>
  ELSE IF \E k \in 1..Len(PathList) : ExecutableAt(k, name)
    THEN \E k \in 1..Len(PathList) :
           /\ ExecutableAt(k, name)
           /\ \A j \in 1..(k - 1) : ~ExecutableAt(j, name)
           /\ r = <<"file", PathJoin(PathList[k], name)>>
  ELSE r = <<None, <<None>>>>

\* C11: a name that is no special builtin resolves to the first match of
\* function, ordinary builtin, keyword, executable file of the first directory
\* of the path list that holds it, and else to (None, None); 'command -v' and
\* 'type -t' print one line for each resolved name and nothing for an
\* unresolved one, and return 1 if some name is unresolved and 0 otherwise
C11_ResolutionOrder ==
  (call.builtin # "none" /\ call.flag) =>
    /\ \A i \in 1..Len(call.names) :
         call.names[i] \notin SpecialBuiltins
           => IsExpected(call.names[i], call.results[i])
    /\ Len(call.out) = Cardinality({i \in 1..Len(call.results) :
                                      call.results[i][1] # None})
    /\ call.status = IF \E i \in 1..Len(call.results) : call.results[i][1] = None
                     THEN 1 ELSE 0

----------------------------------------------------------------------------
(* The variable store (core/state.py), as far as the builtins use it       *)

\* Strings that are indexed or converted are sequences of characters.
Undef == [tag |-> "Undef", s |-> <<>>]
Str(s) == [tag |-> "Str", s |-> s]

\* $0
Dollar0 == <<"o", "s", "h">>

\* the global variables of the model
VarNames ==
  {"opt", "OPTARG", "OPTIND", "PIPESTATUS", "REPLY", "x", "y", "z", "HOME", "OLDPWD", "PWD"}

\* Mem.GetArgNum: the positional argument $n, Undef past the last one
GetArgNum(m, arg_num) ==
  IF arg_num = 0 THEN Str(Dollar0)
  ELSE IF arg_num - 1 >= Len(m.argv) THEN Undef
  ELSE Str(m.argv[arg_num])

\* Mem.GetVar
GetVar(m, name) == m.vars[name]

\* state.SetGlobalString
SetGlobalString(m, name, s) == [m EXCEPT !.vars[name] = Str(s)]

\* a store with the given positional arguments and value of OPTIND
NewMem(argv, optind) ==
  [argv |-> argv, vars |-> [n \in VarNames |-> IF n = "OPTIND" THEN optind ELSE Undef]]

----------------------------------------------------------------------------
(* Decimal strings                                                         *)

Digits == <<"0", "1", "2", "3", "4", "5", "6", "7", "8", "9">>

DigitValue(c) == (CHOOSE d \in 1..10 : Digits[d] = c) - 1

IsDigits(s) == s # <<>> /\ \A i \in 1..Len(s) : \E d \in 1..10 : Digits[d] = s[i]

\* the vertical tab, character 11
VerticalTab == ""

\* the white space int() passes over: the characters of isspace()
WhiteSpace == {" ", "\t", "\n", VerticalTab, "\f", "\r"}

\* s without the white space it begins with
RECURSIVE LStrip(_)
LStrip(s) == IF s # <<>> /\ Head(s) \in WhiteSpace THEN LStrip(Tail(s)) ELSE s

\* s without the white space at both ends
RECURSIVE Strip(_)
Strip(s) ==
  IF s = <<>> THEN s
  ELSE IF Head(s) \in WhiteSpace THEN Strip(Tail(s))
  ELSE IF s[Len(s)] \in WhiteSpace THEN Strip(SubSeq(s, 1, Len(s) - 1))
  ELSE s

\* s is an optional sign, white space or none, and digits
IsSignedDigits(s) ==
  IF s # <<>> /\ Head(s) \in {"-", "+"} THEN IsDigits(LStrip(Tail(s))) ELSE IsDigits(s)

\* int(s) of Python 2 raises ValueError unless s is an optional sign and
\* digits, with white space before the sign, after it and after the digits,
\* or without
IsInt(s) == IsSignedDigits(Strip(s))

RECURSIVE DigitsValue(_)
DigitsValue(s) ==
  IF s = <<>> THEN 0 ELSE 10 * DigitsValue(SubSeq(s, 1, Len(s) - 1)) + DigitValue(s[Len(s)])

\* the value of an optional sign and digits
SignedValue(s) ==
  IF Head(s) = "-" THEN 0 - DigitsValue(LStrip(Tail(s)))
  ELSE IF Head(s) = "+" THEN DigitsValue(LStrip(Tail(s)))
  ELSE DigitsValue(s)

\* int(s)
IntOf(s) == SignedValue(Strip(s))

\* str(n)
RECURSIVE StrOf(_)
StrOf(n) ==
  IF n < 0 THEN <<"-">> \o StrOf(0 - n)
  ELSE IF n < 10 THEN <<Digits[n + 1]>>
  ELSE StrOf(n \div 10) \o <<Digits[(n % 10) + 1]>>

----------------------------------------------------------------------------
(* getopts                                                                 *)

MaxArgs == 3
MaxCalls == 3

\* the loop of _ParseOptSpec from index i on: '-c' -> whether c takes an argument
RECURSIVE ParseOptSpecFrom(_, _, _)
ParseOptSpecFrom(spec_str, i, spec) ==
  IF i >= Len(spec_str) THEN spec
  ELSE LET key == <<"-", spec_str[i + 1]>>
           spec1 == (key :> FALSE) @@ spec
       IN IF i + 1 >= Len(spec_str) THEN spec1
          ELSE IF spec_str[i + 2] = ":"
            THEN ParseOptSpecFrom(spec_str, i + 2, (key :> TRUE) @@ spec1)
          ELSE ParseOptSpecFrom(spec_str, i + 1, spec1)

ParseOptSpec(spec_str) == ParseOptSpecFrom(spec_str, 0, <<>>)

\* the argument after the option is taken as OPTARG; OPTIND passes it
TakeOptArg_NoAdvance(v3, optind) == [optarg |-> v3.s, optind |-> optind]
TakeOptArg(v3, optind) == [optarg |-> v3.s, optind |-> optind + 1]

\* _GetOpts: status, opt_char, optarg, optind, and whether an error was reported
GetOptsResult(status, opt_char, optarg, optind, error) ==
  [status |-> status, opt_char |-> opt_char, optarg |-> optarg, optind |-> optind,
   error |-> error]

\* no argument at OPTIND, or one that does not look like a flag
NoMoreOptions_Advances(optarg, optind) == GetOptsResult(1, "?", optarg, optind + 1, FALSE)
NoMoreOptions(optarg, optind) == GetOptsResult(1, "?", optarg, optind, FALSE)

\* the option requires an argument and none follows
MissingOptArg_Fails(optarg, optind) == GetOptsResult(1, "?", optarg, optind, TRUE)
MissingOptArg(optarg, optind) == GetOptsResult(0, "?", optarg, optind, TRUE)

\* the argument looks like a flag and is not in the spec
InvalidFlag_Stays(optarg, optind) == GetOptsResult(0, "?", optarg, optind, FALSE)
InvalidFlag(optarg, optind) == GetOptsResult(0, "?", optarg, optind + 1, FALSE)

GetOpts1(spec, m, optind) ==
  LET v2 == GetArgNum(m, optind)
      current == v2.s
  IN IF v2.tag = "Undef" THEN NoMoreOptions(<<>>, optind)
     ELSE IF current = <<>> \/ Head(current) # "-" THEN NoMoreOptions(<<>>, optind)
     ELSE IF current \notin DOMAIN spec THEN InvalidFlag(<<>>, optind)
     ELSE LET opt_char == current[Len(current)]
              v3 == GetArgNum(m, optind + 1)
          IN IF ~spec[current] THEN GetOptsResult(0, opt_char, <<>>, optind + 1, FALSE)
             ELSE IF v3.tag = "Undef" THEN MissingOptArg(<<>>, optind + 1)
             ELSE LET t == TakeOptArg(v3, optind + 1)
                  IN GetOptsResult(0, opt_char, t.optarg, t.optind, FALSE)

NoGetOpts == [argv |-> <<>>, outcome |-> "none", status |-> 0, log |-> <<>>]

\* the spec of the call, parsed once for each spec string
CachedSpec(spec_str) ==
  IF spec_str \in DOMAIN getopts_cache THEN getopts_cache[spec_str]
  ELSE ParseOptSpec(spec_str)

CanCallGetOpts == getopts.outcome \in {"none", "returned"} /\ Len(getopts.log) < MaxCalls

\* getopts with fewer than two arguments: UsageError
GetOptsUsageError ==
  /\ CanCallGetOpts
  /\ Len(getopts.argv) < 2
  /\ getopts' = [getopts EXCEPT !.outcome = "UsageError"]
  /\ UNCHANGED <<mem, getopts_cache, notGetOpts>>

\* OPTIND is no string or no integer: a fatal error
GetOptsFatal ==
  /\ CanCallGetOpts
  /\ Len(getopts.argv) >= 2
  /\ LET v == GetVar(mem, "OPTIND") IN ~(v.tag = "Str" /\ IsInt(v.s))
  /\ getopts_cache' = (getopts.argv[1] :> CachedSpec(getopts.argv[1])) @@ getopts_cache
  /\ getopts' = [getopts EXCEPT !.outcome = "fatal"]
  /\ UNCHANGED <<mem, notGetOpts>>

\* getopts spec_str var_name
GetOpts ==
  /\ CanCallGetOpts
  /\ Len(getopts.argv) >= 2
  /\ LET spec_str == getopts.argv[1]
         var_name == getopts.argv[2]
         spec == CachedSpec(spec_str)
         v == GetVar(mem, "OPTIND")
     IN /\ v.tag = "Str" /\ IsInt(v.s)
        /\ LET r == GetOpts1(spec, mem, IntOf(v.s))
               m1 == SetGlobalString(mem, var_name, <<r.opt_char>>)
               m2 == SetGlobalString(m1, "OPTARG", r.optarg)
               m3 == SetGlobalString(m2, "OPTIND", StrOf(r.optind))
           IN /\ mem' = m3
              /\ getopts_cache' = (spec_str :> spec) @@ getopts_cache
              /\ getopts' = [getopts EXCEPT
                               !.outcome = "returned",
                               !.status = r.status,
                               !.log = Append(@, [before |-> mem, after |-> m3,
                                                   status |-> r.status,
                                                   error |-> r.error])]
  /\ UNCHANGED notGetOpts

\* the positional arguments, the spec strings and the values of OPTIND
GetOptsArgs == {<<"-", "a">>, <<"-", "b">>, <<"-", "c">>, <<"-">>, <<"v">>, <<"-", "a", "b">>}
SpecStrings == {<<"a", "b", ":">>, <<"a", ":">>, <<"b">>}
OptIndValues ==
  {Undef, Str(<<"x">>), Str(<<" ", "1">>), Str(<<"+", " ", "2">>), Str(<<VerticalTab, "1">>)}
    \cup {Str(StrOf(n)) : n \in 0..(MaxArgs + 1)}

GetOptsInit ==
  /\ \E argv \in SeqsUpTo(GetOptsArgs, MaxArgs), optind \in OptIndValues :
       mem = NewMem(argv, optind)
  /\ getopts_cache = <<>>
  /\ \E argv \in {<<>>} \cup {<<ss, "opt">> : ss \in SpecStrings} :
       getopts = [NoGetOpts EXCEPT !.argv = argv]

MemIdle == mem = NewMem(<<>>, Str(<<"1">>))

GetOptsIdle == getopts_cache = <<>> /\ getopts = NoGetOpts

GetOptsNext == GetOptsUsageError \/ GetOptsFatal \/ GetOpts

----------------------------------------------------------------------------
(* Jobs and the waiter (core/process.py), as far as 'wait' uses them       *)

MaxJobs == 2
MaxIds == 2

StrArray(a) == [tag |-> "StrArray", s |-> a]

\* state.SetGlobalArray
SetGlobalArray(m, name, a) == [m EXCEPT !.vars[name] = StrArray(a)]

\* the children os.wait has not returned yet
Children == {pid \in DOMAIN procs : ~procs[pid].reaped}

\* Job.WhenDone, the callback of the waiter: the status of the member is
\* recorded, and the job is Done when every member has a status
WhenDone(job, pid, status) ==
  LET pipe_status == [i \in 1..Len(job.pids) |->
                        IF job.pids[i] = pid THEN status ELSE job.pipe_status[i]]
  IN [job EXCEPT !.pipe_status = pipe_status,
                 !.state = IF \A i \in 1..Len(pipe_status) : pipe_status[i] # -1
                           THEN "Done" ELSE "Running"]

\* the job table after the waiter has called the callback registered for pid
Reaped(js, pid, status) ==
  [jid \in DOMAIN js |->
     IF \E i \in 1..Len(js[jid].pids) : js[jid].pids[i] = pid
     THEN WhenDone(js[jid], pid, status) ELSE js[jid]]

\* JobState.AllDone
AllDone(js) == \A jid \in DOMAIN js : js[jid].state = "Done"

\* what WaitUntilDone returns: the status of a process, the list of the
\* statuses of the members of a pipeline
JobStatus(job) == IF job.kind = "Pipeline" THEN job.pipe_status ELSE job.pipe_status[1]

\* Waiter.Wait that returns True: os.wait returns the child pid, its callback
\* runs and its status is the last status
WaiterWait(pid) ==
  /\ pid \in Children
  /\ procs' = [procs EXCEPT ![pid].reaped = TRUE]
  /\ jobs' = Reaped(jobs, pid, procs[pid].status)
  /\ last_status' = procs[pid].status

\* Waiter.Wait that returns False: there is no child to wait for
NothingToWaitFor == Children = {}

----------------------------------------------------------------------------
(* wait                                                                    *)

NoWait ==
  [argv |-> <<>>, pc |-> "none", args |-> <<>>, i |-> 0, jid |-> 0, status |-> 0,
   result |-> -1, mode |-> "", seen |-> <<>>, waited |-> <<>>, before |-> Undef]

Return(w, status) == [w EXCEPT !.pc = "done", !.result = status]

\* an argument of wait is an option: it starts with a dash and is not a dash
\* alone
IsOption(a) == IF a = <<>> THEN FALSE ELSE a[1] = "-" /\ a # <<"-">>

\* getopt.getopt(args, 'n'): the options are the arguments up to the first
\* that is no option, or up to --, which is dropped; any option that is not
\* made of the letter n, a long option among them, is an error
RECURSIVE GetOptN(_, _)
GetOptN(args, opt_n) ==
  IF args = <<>> THEN [error |-> FALSE, opt_n |-> opt_n, args |-> args]
  ELSE IF ~IsOption(Head(args)) THEN [error |-> FALSE, opt_n |-> opt_n, args |-> args]
  ELSE IF Head(args) = <<"-", "-">> THEN [error |-> FALSE, opt_n |-> opt_n, args |-> Tail(args)]
  ELSE IF \A i \in 2..Len(Head(args)) : Head(args)[i] = "n" THEN GetOptN(Tail(args), TRUE)
  ELSE [error |-> TRUE, opt_n |-> opt_n, args |-> <<>>]

\* getopt.getopt(argv, 'n') and the dispatch on the options and the arguments
WaitStart ==
  /\ wait.pc = "start"
  /\ ~GetOptN(wait.argv, FALSE).error
  /\ LET opt_n == GetOptN(wait.argv, FALSE).opt_n
         args == GetOptN(wait.argv, FALSE).args
     IN wait' = IF opt_n THEN [wait EXCEPT !.pc = "next", !.mode = "next", !.args = args]
                ELSE IF args = <<>>
                  THEN [wait EXCEPT !.pc = "all", !.mode = "all", !.args = args]
                ELSE [wait EXCEPT !.pc = "ids", !.mode = "ids", !.args = args, !.i = 1,
                                  !.status = 1]
  /\ UNCHANGED <<procs, jobs, last_status, mem, notWait>>

\* an option other than -n: usage error, the shell exits with 2
WaitUsage ==
  /\ wait.pc = "start"
  /\ GetOptN(wait.argv, FALSE).error
  /\ wait' = [wait EXCEPT !.pc = "exit", !.result = 2]
  /\ UNCHANGED <<procs, jobs, last_status, mem, notWait>>

\* wait -n: the status of the next child
WaitNext ==
  /\ wait.pc = "next"
  /\ \E pid \in Children :
       /\ WaiterWait(pid)
       /\ wait' = Return([wait EXCEPT !.seen = Append(@, pid)], procs[pid].status)
  /\ UNCHANGED <<mem, notWait>>

\* wait -n with nothing to wait for
WaitNextNothing ==
  /\ wait.pc = "next"
  /\ NothingToWaitFor
  /\ wait' = Return(wait, 127)
  /\ UNCHANGED <<procs, jobs, last_status, mem, notWait>>

\* the loop of 'wait' without ids ends after a wait when this holds
WaitAllBreaks_Always(js) == TRUE
WaitAllBreaks(js) == AllDone(js)

\* wait without ids: one more child has been waited for
WaitAll ==
  /\ wait.pc = "all"
  /\ \E pid \in Children :
       /\ WaiterWait(pid)
       /\ wait' = IF WaitAllBreaks(jobs')
                  THEN Return([wait EXCEPT !.seen = Append(@, pid)], 0)
                  ELSE [wait EXCEPT !.seen = Append(@, pid)]
  /\ UNCHANGED <<mem, notWait>>

\* wait without ids: nothing to wait for
WaitAllNothing ==
  /\ wait.pc = "all"
  /\ NothingToWaitFor
  /\ wait' = Return(wait, 0)
  /\ UNCHANGED <<procs, jobs, last_status, mem, notWait>>

\* the id is no integer, or no job has it
InvalidId_Continues(w) ==
  IF w.i >= Len(w.args) THEN Return(w, 127) ELSE [w EXCEPT !.i = @ + 1, !.status = 127]
InvalidId(w) == Return(w, 127)

\* wait ids: the next id is looked up
WaitLookup ==
  /\ wait.pc = "ids"
  /\ LET a == wait.args[wait.i]
     IN wait' = IF ~IsInt(a) THEN InvalidId(wait)
                ELSE IF IntOf(a) \notin DOMAIN jobs THEN InvalidId(wait)
                ELSE [wait EXCEPT !.pc = "until", !.jid = IntOf(a)]
  /\ UNCHANGED <<procs, jobs, last_status, mem, notWait>>

\* the status of a pipeline is the status of its last member
PipelineStatus_First(st) == st[1]
PipelineStatus(st) == st[Len(st)]

\* the statuses of the members of a pipeline are published
Publish_Last(m, st) == SetGlobalArray(m, "PIPESTATUS", <<StrOf(st[Len(st)])>>)
Publish(m, st) == SetGlobalArray(m, "PIPESTATUS", [i \in 1..Len(st) |-> StrOf(st[i])])

\* the call after WaitUntilDone has returned for the i-th id
Waited(w, job) ==
  LET st == JobStatus(job)
      status == IF job.kind = "Pipeline" THEN PipelineStatus(st) ELSE st
      w1 == [w EXCEPT !.status = status, !.waited = Append(@, w.jid)]
  IN IF w.i >= Len(w.args) THEN Return(w1, status)
     ELSE [w1 EXCEPT !.pc = "ids", !.i = @ + 1]

MemWaited(m, job) == IF job.kind = "Pipeline" THEN Publish(m, JobStatus(job)) ELSE m

\* Job.WaitUntilDone: one more child has been waited for
WaitUntilDone ==
  /\ wait.pc = "until"
  /\ \E pid \in Children :
       /\ WaiterWait(pid)
       /\ LET w == [wait EXCEPT !.seen = Append(@, pid)]
              job == jobs'[wait.jid]
          IN IF job.state = "Done"
             THEN wait' = Waited(w, job) /\ mem' = MemWaited(mem, job)
             ELSE wait' = w /\ mem' = mem
  /\ UNCHANGED notWait

\* Job.WaitUntilDone: nothing to wait for
WaitUntilDoneNothing ==
  /\ wait.pc = "until"
  /\ NothingToWaitFor
  /\ wait' = Waited(wait, jobs[wait.jid])
  /\ mem' = MemWaited(mem, jobs[wait.jid])
  /\ UNCHANGED <<procs, jobs, last_status, notWait>>

\* the jobs of the model: a process or a pipeline, with the exit statuses
JobShapes ==
  {[kind |-> "Process", st |-> <<3>>], [kind |-> "Process", st |-> <<0>>],
   [kind |-> "Pipeline", st |-> <<0, 5>>]}

RECURSIVE PidsBefore(_, _)
PidsBefore(shapes, k) ==
  IF k <= 1 THEN 0 ELSE PidsBefore(shapes, k - 1) + Len(shapes[k - 1].st)

\* the job id of the k-th job: the pid of its last member
JobId(shapes, k) == PidsBefore(shapes, k + 1)

\* the index of the job and of the member of a pid
JobOf(shapes, pid) ==
  CHOOSE k \in 1..Len(shapes) : PidsBefore(shapes, k) < pid /\ pid <= JobId(shapes, k)

\* the processes and the job table of the shapes; the first n jobs are Done
NewProcs(shapes, n) ==
  [pid \in 1..PidsBefore(shapes, Len(shapes) + 1) |->
     LET k == JobOf(shapes, pid)
     IN [status |-> shapes[k].st[pid - PidsBefore(shapes, k)], reaped |-> k <= n]]

NewJobs(shapes, n) ==
  [jid \in {JobId(shapes, k) : k \in 1..Len(shapes)} |->
     LET k == CHOOSE j \in 1..Len(shapes) : JobId(shapes, j) = jid
         m == Len(shapes[k].st)
     IN [kind |-> shapes[k].kind,
         pids |-> [i \in 1..m |-> PidsBefore(shapes, k) + i],
         pipe_status |-> [i \in 1..m |-> IF k <= n THEN shapes[k].st[i] ELSE -1],
         state |-> IF k <= n THEN "Done" ELSE "Running"]]

\* the ids asked for: those of the jobs, one without a job and one that is no number
IdArgs(shapes) ==
  {StrOf(JobId(shapes, k)) : k \in 1..Len(shapes)} \cup {<<"9">>, <<"x">>}

\* the argument lists with options, and those with white space around the
\* id and after its sign
OptionArgs ==
  {<<<<"-", "n">>>>, <<<<"-", "z">>>>, <<<<"-", "5">>>>, <<<<"-", "n", "n">>>>,
   <<<<"-", "n">>, <<"-", "z">>>>, <<<<"-", "-">>>>, <<<<"-", "-">>, <<"1">>>>,
   <<<<"-", "-", "n">>>>, <<<<"-">>>>, <<<<" ", "1">>>>, <<<<"+", " ", "1">>>>,
   <<<<"1", VerticalTab>>>>, <<<<"-", " ", "1">>>>}

WaitInit ==
  /\ \E shapes \in SeqsUpTo(JobShapes, MaxJobs), n \in 0..1 :
       /\ n <= Len(shapes)
       /\ procs = NewProcs(shapes, n)
       /\ jobs = NewJobs(shapes, n)
       /\ last_status = IF n = 0 THEN 127 ELSE shapes[1].st[Len(shapes[1].st)]
       /\ \E argv \in SeqsUpTo(IdArgs(shapes), MaxIds) \cup OptionArgs,
             ps \in {StrArray(<<<<"7">>>>)} :
            /\ wait = [NoWait EXCEPT !.argv = argv, !.pc = "start", !.before = ps]
            /\ mem = [NewMem(<<>>, Str(<<"1">>)) EXCEPT !.vars["PIPESTATUS"] = ps]

WaitIdle == procs = <<>> /\ jobs = <<>> /\ last_status = 127 /\ wait = NoWait

WaitNextAction ==
  \/ WaitStart \/ WaitUsage \/ WaitNext \/ WaitNextNothing \/ WaitAll \/ WaitAllNothing
  \/ WaitLookup \/ WaitUntilDone \/ WaitUntilDoneNothing

----------------------------------------------------------------------------
(* Field assembly and read                                                 *)

MaxSpans == 5
MaxFields == 2

\* state.SetLocalString
SetLocalString(m, name, s) == [m EXCEPT !.vars[name] = Str(s)]

\* s[start_index:end_index]
Slice(s, start_index, end_index) == SubSeq(s, start_index + 1, end_index)

\* parts[-1] += text
JoinLast(parts, text) == [parts EXCEPT ![Len(parts)] = @ \o text]

\* a Black span when the field list is full or a join is pending
BlackJoined_NewField(parts, text) == Append(parts, text)
BlackJoined(parts, text) == JoinLast(parts, text)

\* join_next after a span, given the number of fields
Overflow_Off(join_next, parts, max_results) == join_next
Overflow(join_next, parts, max_results) ==
  IF Len(parts) >= max_results THEN TRUE ELSE join_next

\* join_next after a Backslash span
BackslashJoin_Always(join_next, last_span_was_black) == TRUE
BackslashJoin(join_next, last_span_was_black) ==
  IF last_span_was_black THEN TRUE ELSE join_next

\* the state of the loop of _AppendParts
LoopState(parts, join_next, last_span_was_black, start_index, error, trace) ==
  [parts |-> parts, join_next |-> join_next, last_span_was_black |-> last_span_was_black,
   start_index |-> start_index, error |-> error, trace |-> trace]

\* one iteration of the loop of _AppendParts
AppendSpan(s, span, max_results, st) ==
  LET span_type == span[1]
      end_index == span[2]
      text == Slice(s, st.start_index, end_index)
      raises == span_type = "Delim" /\ st.join_next /\ st.parts = <<>>
      parts == IF span_type = "Black"
               THEN IF st.join_next /\ st.parts # <<>> THEN BlackJoined(st.parts, text)
                    ELSE Append(st.parts, text)
               ELSE IF span_type = "Delim" /\ st.join_next /\ ~raises
                 THEN JoinLast(st.parts, text)
               ELSE st.parts
      join_next == IF span_type = "Black" THEN (IF st.parts # <<>> THEN FALSE ELSE st.join_next)
                   ELSE IF span_type = "Delim" THEN FALSE
                   ELSE BackslashJoin(st.join_next, st.last_span_was_black)
      join_next2 == Overflow(join_next, parts, max_results)
      iter == [span_type |-> span_type, text |-> text, before |-> st.parts,
               join_before |-> st.join_next, after |-> parts, join_after |-> join_next2]
  IN IF st.error # "" THEN st
     ELSE IF raises
       THEN [st EXCEPT !.error = "IndexError",
                       !.trace = Append(@, [iter EXCEPT !.join_after = st.join_next])]
     ELSE LoopState(parts, join_next2, span_type = "Black", end_index, "",
                    Append(st.trace, iter))

RECURSIVE AppendSpans(_, _, _, _)
AppendSpans(s, spans, max_results, st) ==
  IF spans = <<>> THEN st
  ELSE AppendSpans(s, Tail(spans), max_results, AppendSpan(s, Head(spans), max_results, st))

\* done: the last span is no Backslash
Done(spans) == IF spans # <<>> THEN spans[Len(spans)][1] # "Backslash" ELSE TRUE

\* _AppendParts: parts after the call, done, join_next (and the iterations made)
AppendParts(s, spans, max_results, join_next, parts, trace) ==
  LET st == AppendSpans(s, spans, max_results,
                        LoopState(parts, join_next, FALSE, 0, "", trace))
  IN [parts |-> st.parts, done |-> Done(spans), join_next |-> st.join_next,
      error |-> st.error, trace |-> st.trace]

\* The lines of the model are sequences of spans.  The n-th span read is a
\* Black span of one or two letters, a Delim span of one space or a Backslash
\* span of one backslash.
SpanTypes == {"Black", "Delim", "Backslash"}
Letters == <<"a", "b", "c", "d", "e", "f", "g", "h">>

SpanText(span_type, n) ==
  IF span_type = "Delim" THEN <<" ">>
  ELSE IF span_type = "Backslash" THEN <<"\\">>
  ELSE IF n % 2 = 1 THEN <<Letters[n], Letters[n]>>
  ELSE <<Letters[n]>>

\* the text of a line of which the first span is the (n + 1)-th span read
RECURSIVE LineText(_, _)
LineText(types, n) ==
  IF types = <<>> THEN <<>>
  ELSE SpanText(Head(types), n + 1) \o LineText(Tail(types), n + 1)

\* splitter.SplitForRead: the spans of the line as (span_type, end_index);
\* without allow_escape a backslash is an ordinary character
SplitForRead(types, n, allow_escape) ==
  [i \in 1..Len(types) |->
     <<IF types[i] = "Backslash" /\ ~allow_escape THEN "Black" ELSE types[i],
       Len(LineText(SubSeq(types, 1, i), n))>>]

NoRead ==
  [pc |-> "none", r |-> FALSE, n |-> -1, names |-> <<>>, max_results |-> 0,
   parts |-> <<>>, join_next |-> FALSE, status |-> 0, result |-> -1, spans |-> 0,
   trace |-> <<>>, assigned |-> <<>>, eof |-> FALSE]

\* read -n N name: N bytes into one variable
ReadBytes ==
  /\ read.pc = "start"
  /\ read.n # -1
  /\ \E bytes \in {<<>>, <<"a", " ">>} :
       LET name == IF read.names # <<>> THEN read.names[1] ELSE "REPLY"
       IN /\ mem' = SetLocalString(mem, name, bytes)
          /\ read' = [read EXCEPT !.pc = "done", !.result = 0,
                                  !.assigned = Append(@, name)]
  /\ UNCHANGED <<stdin, notRead>>

\* read names: the names, and the empty list of parts
ReadStart ==
  /\ read.pc = "start"
  /\ read.n = -1
  /\ LET names == IF read.names = <<>> THEN <<"REPLY">> ELSE read.names
     IN read' = [read EXCEPT !.pc = "loop", !.names = names,
                             !.max_results = Len(names), !.parts = <<>>,
                             !.join_next = FALSE]
  /\ UNCHANGED <<mem, stdin, notRead>>

\* the state of the call after a line was read and its spans were appended
AfterLine(rd, a, status) ==
  IF a.error # "" THEN [rd EXCEPT !.pc = "raised", !.trace = a.trace]
  ELSE [rd EXCEPT !.pc = IF a.done THEN "assign" ELSE "loop",
                  !.parts = a.parts, !.join_next = a.join_next, !.status = status,
                  !.trace = a.trace]

\* one line is read: with a trailing newline, or the last one of the input
ReadLine ==
  /\ read.pc = "loop"
  /\ \E types \in SeqsUpTo(SpanTypes, MaxSpans - read.spans), newline \in BOOLEAN :
       LET line == LineText(types, read.spans)
           spans == SplitForRead(types, read.spans, ~read.r)
           a == AppendParts(line, spans, read.max_results, read.join_next, read.parts,
                            read.trace)
       IN /\ IF newline THEN TRUE ELSE types # <<>>
          /\ stdin' = Append(stdin, [line |-> line, spans |-> spans, newline |-> newline])
          /\ read' = AfterLine([read EXCEPT !.spans = @ + Len(types)], a,
                               IF newline THEN 0 ELSE 1)
  /\ UNCHANGED <<mem, notRead>>

\* end of input
ReadEof ==
  /\ read.pc = "loop"
  /\ read' = [read EXCEPT !.pc = "assign", !.status = 1, !.eof = TRUE]
  /\ UNCHANGED <<mem, stdin, notRead>>

\* the value of the i-th name: the i-th part, or the empty string
PartOrEmpty_Shifted(parts, i) == IF i < Len(parts) THEN parts[i] ELSE <<>>
PartOrEmpty(parts, i) == IF i <= Len(parts) THEN parts[i] ELSE <<>>

RECURSIVE AssignNames(_, _, _, _)
AssignNames(m, names, parts, i) ==
  IF i > Len(names) THEN m
  ELSE AssignNames(SetLocalString(m, names[i], PartOrEmpty(parts, i)), names, parts, i + 1)

\* the names are assigned and the status is returned
ReadAssign ==
  /\ read.pc = "assign"
  /\ mem' = AssignNames(mem, read.names, read.parts, 1)
  /\ read' = [read EXCEPT !.pc = "done", !.result = read.status,
                          !.assigned = read.names]
  /\ UNCHANGED <<stdin, notRead>>

ReadNames == {<<>>, <<"x">>, <<"x", "y">>, <<"x", "y", "z">>}

ReadInit ==
  /\ stdin = <<>>
  /\ mem = NewMem(<<>>, Str(<<"1">>))
  /\ \E names \in ReadNames, r \in BOOLEAN, n \in {-1, 2} :
       /\ Len(names) <= MaxFields
       /\ read = [NoRead EXCEPT !.pc = "start", !.names = names, !.r = r, !.n = n]

ReadIdle == stdin = <<>> /\ read = NoRead

ReadNext == ReadBytes \/ ReadStart \/ ReadLine \/ ReadEof \/ ReadAssign

----------------------------------------------------------------------------
(* Properties of getopts                                                   *)

\* the spec string and the positional arguments of the calls
SpecStr == getopts.argv[1]
Args == mem.argv

\* OPTIND before the call logged in entry e, and the variables after it
OptIndBefore(e) == IntOf(e.before.vars["OPTIND"].s)
OptIndAfter(e) == e.after.vars["OPTIND"]
OptVarAfter(e) == e.after.vars["opt"]
OptArgAfter(e) == e.after.vars["OPTARG"]

HasArgAt(n) == n \in 1..Len(Args)

\* c is an option of the spec string; it takes an argument if a colon follows it
InSpec(c) == c # ":" /\ \E i \in 1..Len(SpecStr) : SpecStr[i] = c
TakesArg(c) ==
  \E i \in 1..(Len(SpecStr) - 1) : SpecStr[i] = c /\ SpecStr[i + 1] = ":"

\* the argument at n is '-c' with c an option of the spec string
IsOptionAt(n) ==
  /\ HasArgAt(n)
  /\ Len(Args[n]) = 2
  /\ Args[n][1] = "-"
  /\ InSpec(Args[n][2])

\* C12: a call with '-c' at OPTIND, c in the spec: without an argument the
\* option variable is c, OPTARG is empty and OPTIND grows by 1; with an
\* argument that is present the option variable is c, OPTARG is the following
\* argument and OPTIND grows by 2; the status is 0.  Over "ab:" and
\* '-a -b v' from OPTIND=1 two calls give (a, 2) and then (b, v, 4).
C12_OptionParsed ==
  \A k \in 1..Len(getopts.log) :
    LET e == getopts.log[k]
        n == OptIndBefore(e)
    IN IsOptionAt(n) =>
         LET c == Args[n][2]
         IN /\ ~TakesArg(c) =>
                 /\ OptVarAfter(e) = Str(<<c>>)
                 /\ OptArgAfter(e) = Str(<<>>)
                 /\ OptIndAfter(e) = Str(StrOf(n + 1))
                 /\ e.status = 0
            /\ (TakesArg(c) /\ HasArgAt(n + 1)) =>
                 /\ OptVarAfter(e) = Str(<<c>>)
                 /\ OptArgAfter(e) = Str(Args[n + 1])
                 /\ OptIndAfter(e) = Str(StrOf(n + 2))
                 /\ e.status = 0

\* the two calls over "ab:" and '-a -b v' from OPTIND=1 have been made
C12_Witness ==
  /\ Len(getopts.log) = 2
  /\ SpecStr = <<"a", "b", ":">>
  /\ Args = <<<<"-", "a">>, <<"-", "b">>, <<"v">>>>
  /\ getopts.log[1].before.vars["OPTIND"] = Str(<<"1">>)
  /\ OptVarAfter(getopts.log[1]) = Str(<<"a">>)
  /\ OptIndAfter(getopts.log[1]) = Str(<<"2">>)
  /\ OptVarAfter(getopts.log[2]) = Str(<<"b">>)
  /\ OptArgAfter(getopts.log[2]) = Str(<<"v">>)
  /\ OptIndAfter(getopts.log[2]) = Str(<<"4">>)

\* the argument at n exists and starts with '-'
LooksLikeFlagAt(n) == HasArgAt(n) /\ Args[n] # <<>> /\ Args[n][1] = "-"

\* C13: the status is 1 exactly when there is no argument at OPTIND or it does
\* not start with '-', and then the option variable is '?' and OPTIND keeps its
\* value; an argument that starts with '-' and is not in the spec gives status
\* 0, '?' and OPTIND + 1
C13_NoMoreOptions ==
  \A k \in 1..Len(getopts.log) :
    LET e == getopts.log[k]
        n == OptIndBefore(e)
    IN /\ (e.status = 1) = ~LooksLikeFlagAt(n)
       /\ e.status = 1 =>
            /\ OptVarAfter(e) = Str(<<"?">>)
            /\ OptIndAfter(e) = Str(StrOf(n))
       /\ (LooksLikeFlagAt(n) /\ ~IsOptionAt(n)) =>
            /\ e.status = 0
            /\ OptVarAfter(e) = Str(<<"?">>)
            /\ OptIndAfter(e) = Str(StrOf(n + 1))

\* a call has found a word that is no flag, another an unknown flag
C13_Witness ==
  /\ \E k \in 1..Len(getopts.log) :
       /\ HasArgAt(OptIndBefore(getopts.log[k]))
       /\ getopts.log[k].status = 1
  /\ \E k \in 1..Len(getopts.log) :
       /\ LooksLikeFlagAt(OptIndBefore(getopts.log[k]))
       /\ ~IsOptionAt(OptIndBefore(getopts.log[k]))
       /\ getopts.log[k].status = 0

\* C14: an option that requires an argument, with no argument after it:
\* an error is reported, the option variable is '?', OPTARG is empty and the
\* status is 0
C14_MissingArgument ==
  \A k \in 1..Len(getopts.log) :
    LET e == getopts.log[k]
        n == OptIndBefore(e)
    IN (IsOptionAt(n) /\ TakesArg(Args[n][2]) /\ ~HasArgAt(n + 1)) =>
         /\ e.error
         /\ OptVarAfter(e) = Str(<<"?">>)
         /\ OptArgAfter(e) = Str(<<>>)
         /\ e.status = 0

\* a call has found an option without its argument
C14_Witness ==
  \E k \in 1..Len(getopts.log) :
    LET n == OptIndBefore(getopts.log[k])
    IN /\ IsOptionAt(n)
       /\ TakesArg(Args[n][2])
       /\ ~HasArgAt(n + 1)
       /\ getopts.log[k].error

\* OPTIND after the call logged in entry e, as a number
OptIndReached(e) == IntOf(OptIndAfter(e).s)

\* the number of the first k calls that returned 0
RECURSIVE ZeroCalls(_)
ZeroCalls(k) ==
  IF k = 0 THEN 0 ELSE ZeroCalls(k - 1) + (IF getopts.log[k].status = 0 THEN 1 ELSE 0)

\* C30: over n positional arguments and from OPTIND = 1, the calls of getopts
\* never decrease OPTIND, a call that returns 0 increases it, and OPTIND is
\* never above n + 1; at most n calls return 0, and after a call that returned
\* 1 every call returns 1 and leaves OPTIND as it is
C30_OptIndMonotonic ==
  (getopts.log # <<>> /\ getopts.log[1].before.vars["OPTIND"] = Str(<<"1">>)) =>
    /\ \A k \in 1..Len(getopts.log) :
         LET e == getopts.log[k]
         IN /\ OptIndReached(e) >= OptIndBefore(e)
            /\ e.status = 0 => OptIndReached(e) > OptIndBefore(e)
            /\ OptIndReached(e) <= Len(Args) + 1
            /\ e.status \in {0, 1}
            /\ k > 1 => e.before = getopts.log[k - 1].after
            /\ (k > 1 /\ getopts.log[k - 1].status = 1) =>
                 (e.status = 1 /\ OptIndReached(e) = OptIndBefore(e))
    /\ ZeroCalls(Len(getopts.log)) <= Len(Args)

\* over two arguments, an unknown flag and an option, two calls have returned 0
\* and the third has returned 1 with OPTIND = 3
C30_Witness ==
  /\ Len(getopts.log) = 3
  /\ Len(Args) = 2
  /\ getopts.log[1].before.vars["OPTIND"] = Str(<<"1">>)
  /\ LooksLikeFlagAt(1) /\ ~IsOptionAt(1)
  /\ IsOptionAt(2)
  /\ getopts.log[1].status = 0
  /\ getopts.log[2].status = 0
  /\ getopts.log[3].status = 1
  /\ mem.vars["OPTIND"] = Str(<<"3">>)

----------------------------------------------------------------------------
(* Properties of wait                                                      *)

WaitReturned == wait.pc = "done"

\* the i-th id names a tracked job
ValidId(i) == IsInt(wait.args[i]) /\ IntOf(wait.args[i]) \in DOMAIN jobs

\* the exit statuses of the members of a job, in member order
MemberStatuses(jid) ==
  [i \in 1..Len(jobs[jid].pids) |-> procs[jobs[jid].pids[i]].status]

\* the job ids of the first n ids
ListedIds(n) == [i \in 1..n |-> IntOf(wait.args[i])]

\* two children of different jobs were waited for against the order of the jobs
OutOfOrder ==
  \E i, j \in 1..Len(wait.seen) : i < j /\ wait.seen[i] > wait.seen[j]

\* C15: 'wait' without ids and without -n returns 0, and only when every
\* tracked job is Done, in whatever order the jobs finish
C15_WaitAll ==
  (wait.mode = "all" /\ WaitReturned) => (wait.result = 0 /\ AllDone(jobs))

\* 'wait' has returned after two jobs that finished against their order
C15_Witness ==
  /\ wait.mode = "all"
  /\ WaitReturned
  /\ Cardinality(DOMAIN jobs) = 2
  /\ OutOfOrder

\* C16: 'wait' with valid ids waits for the listed jobs in list order and
\* returns the status of the last listed job, for a pipeline that of its last
\* member, in whatever order the jobs finish
C16_LastListed ==
  (wait.mode = "ids" /\ \A i \in 1..Len(wait.args) : ValidId(i)) =>
    /\ \E n \in 0..Len(wait.args) : wait.waited = ListedIds(n)
    /\ WaitReturned =>
         LET st == MemberStatuses(IntOf(wait.args[Len(wait.args)]))
         IN /\ wait.result = st[Len(st)]
            /\ wait.waited = ListedIds(Len(wait.args))

\* the last listed job is a pipeline that was not the last to finish, and the
\* last child had another status
C16_Witness ==
  /\ wait.mode = "ids"
  /\ WaitReturned
  /\ Len(wait.args) = 2
  /\ ValidId(1) /\ ValidId(2)
  /\ jobs[IntOf(wait.args[2])].kind = "Pipeline"
  /\ OutOfOrder
  /\ wait.result # last_status
  /\ wait.result # MemberStatuses(IntOf(wait.args[2]))[1]

\* the first id that is no number or names no job
FirstInvalid(k) == ~ValidId(k) /\ \A i \in 1..(k - 1) : ValidId(i)

\* C17: with the first invalid id at position k the call returns 127: only
\* the ids before k are waited for, and their statuses do not matter
C17_InvalidId ==
  wait.mode = "ids" =>
    \A k \in 1..Len(wait.args) :
      FirstInvalid(k) =>
        /\ \E n \in 0..(k - 1) : wait.waited = ListedIds(n)
        /\ WaitReturned => (wait.result = 127 /\ wait.waited = ListedIds(k - 1))

\* an invalid id before a valid one, and a valid one with status 0 before an
\* invalid one
C17_Witness ==
  /\ wait.mode = "ids"
  /\ WaitReturned
  /\ Len(wait.args) = 2
  /\ wait.result = 127
  /\ IF FirstInvalid(1) THEN ValidId(2) /\ jobs[IntOf(wait.args[2])].state = "Running"
     ELSE wait.waited # <<>> /\ wait.status = 0

\* the value of PIPESTATUS after the jobs of ids have been waited for: the
\* statuses of the members of the last pipeline among them
RECURSIVE PipeStatusAfter(_)
PipeStatusAfter(ids) ==
  IF ids = <<>> THEN wait.before
  ELSE IF jobs[ids[Len(ids)]].kind = "Pipeline"
    THEN LET st == MemberStatuses(ids[Len(ids)])
         IN StrArray([i \in 1..Len(st) |-> StrOf(st[i])])
  ELSE PipeStatusAfter(SubSeq(ids, 1, Len(ids) - 1))

\* C18: a completed wait on a pipeline job publishes the statuses of all its
\* members, in member order, in PIPESTATUS, and a wait on another job leaves
\* PIPESTATUS as it is: PIPESTATUS holds the member statuses of the last
\* pipeline waited for
C18_PipeStatus ==
  wait.pc # "none" => mem.vars["PIPESTATUS"] = PipeStatusAfter(wait.waited)

\* a pipeline and then a process have been waited for
C18_Witness ==
  /\ WaitReturned
  /\ Len(wait.waited) = 2
  /\ jobs[wait.waited[1]].kind = "Pipeline"
  /\ jobs[wait.waited[2]].kind = "Process"
  /\ mem.vars["PIPESTATUS"] = StrArray(<<<<"0">>, <<"5">>>>)

----------------------------------------------------------------------------
(* Properties of the field assembly                                        *)

\* the text of the i-th span of a line read
TextOfSpan(l, i) ==
  Slice(l.line, IF i = 1 THEN 0 ELSE l.spans[i - 1][2], l.spans[i][2])

\* the texts of the spans i.. of a line whose type is in types, concatenated
RECURSIVE ConcatFrom(_, _, _)
ConcatFrom(l, i, types) ==
  IF i > Len(l.spans) THEN <<>>
  ELSE (IF l.spans[i][1] \in types THEN TextOfSpan(l, i) ELSE <<>>)
         \o ConcatFrom(l, i + 1, types)

HasBlack(l) == \E i \in 1..Len(l.spans) : l.spans[i][1] = "Black"

FirstBlack(l) ==
  CHOOSE i \in 1..Len(l.spans) :
    l.spans[i][1] = "Black" /\ \A j \in 1..(i - 1) : l.spans[j][1] # "Black"

\* C19: with max_fields >= 1 there are never more than max_fields fields, over
\* any spans and any number of continuation lines: once the number of fields
\* has reached max_fields, every later Black or Delim span is appended to the
\* last field
C19_MaxFields ==
  read.max_results >= 1 =>
    /\ Len(read.parts) <= read.max_results
    /\ \A k \in 1..Len(read.trace) :
         LET it == read.trace[k]
         IN /\ Len(it.after) <= read.max_results
            /\ (Len(it.before) >= read.max_results
                  /\ it.span_type \in {"Black", "Delim"})
                 => it.after = JoinLast(it.before, it.text)

\* on a continuation line, a Delim span and then a Black span were appended to
\* the last field of a full list
C19_Witness ==
  /\ read.max_results = 2
  /\ Len(stdin) = 2
  /\ \E k \in 2..Len(read.trace) :
       /\ Len(read.trace[k - 1].before) = 2
       /\ read.trace[k - 1].span_type = "Delim"
       /\ read.trace[k].span_type = "Black"
       /\ read.trace[k].after = JoinLast(read.trace[k - 1].before, <<" ">> \o SpanText("Black", k))

\* one line without a trailing continuation has been assembled with max_fields = 1
OneLineAssembled ==
  /\ read.pc \in {"assign", "done"}
  /\ read.n = -1
  /\ read.max_results = 1
  /\ Len(stdin) = 1
  /\ Done(stdin[1].spans)

\* C20 as stated: a line with no trailing continuation and max_fields = 1
\* gives exactly one field, the concatenation of the contents of the Black
\* spans, without the Delim spans
C20_DelimsRemoved ==
  OneLineAssembled =>
    /\ Len(read.parts) = 1
    /\ read.parts[1] = ConcatFrom(stdin[1], 1, {"Black"})

\* C20 as amended: a line with no trailing continuation and at least one Black
\* span gives, with max_fields = 1, exactly one field: the contents of the Black
\* and of the Delim spans from the first Black span on, concatenated; a line
\* without a Black span gives no field
C20_OneField ==
  OneLineAssembled =>
    IF HasBlack(stdin[1])
    THEN /\ Len(read.parts) = 1
         /\ read.parts[1] = ConcatFrom(stdin[1], FirstBlack(stdin[1]), {"Black", "Delim"})
    ELSE read.parts = <<>>

\* a line of a Delim span, two words with a Delim span between them
C20_Witness ==
  /\ OneLineAssembled
  /\ Len(stdin[1].spans) = 4
  /\ stdin[1].spans[1][1] = "Delim"
  /\ stdin[1].spans[3][1] = "Delim"
  /\ read.parts = <<<<"b", " ", "d">>>>

----------------------------------------------------------------------------
(* Properties of read                                                      *)

\* the last span of a line read is a Backslash span
EndsInBackslash(l) == l.spans # <<>> /\ l.spans[Len(l.spans)][1] = "Backslash"

\* the number of spans of the lines read before the k-th
RECURSIVE SpansBefore(_)
SpansBefore(k) == IF k <= 1 THEN 0 ELSE SpansBefore(k - 1) + Len(stdin[k - 1].spans)

\* the k-th line ends in a Backslash span right after a Black span, and the
\* next line read has a Black span
FollowsContent(k) ==
  /\ k < Len(stdin)
  /\ Len(stdin[k].spans) >= 2
  /\ EndsInBackslash(stdin[k])
  /\ stdin[k].spans[Len(stdin[k].spans) - 1][1] = "Black"
  /\ HasBlack(stdin[k + 1])

\* the lines read so far are each followed by one more read exactly when they
\* end in a Backslash span
OneMoreLinePerBackslash ==
  /\ \A k \in 1..(Len(stdin) - 1) : EndsInBackslash(stdin[k])
  /\ stdin # <<>> =>
       IF EndsInBackslash(stdin[Len(stdin)])
       THEN IF read.eof THEN read.pc \in {"assign", "done"} ELSE read.pc = "loop"
       ELSE read.pc \in {"assign", "done"} /\ ~read.eof

\* the fields after the j-th span of the line after the k-th are the fields at
\* the end of the k-th line with the text of that span appended to the last
JoinedAt(k, j) ==
  read.trace[SpansBefore(k + 1) + j].after =
    JoinLast(read.trace[SpansBefore(k + 1)].after, TextOfSpan(stdin[k + 1], j))

\* C21: in read without -r, a line whose last span is a Backslash is followed
\* by exactly one more read of a line, and any other line ends the loop; when
\* the Backslash follows a Black span, the first Black span of the next line is
\* appended to the field of that span, with nothing between them
C21_Continuation ==
  (read.n = -1 /\ ~read.r /\ read.pc # "raised") =>
    /\ OneMoreLinePerBackslash
    /\ \A k \in 1..Len(stdin) :
         FollowsContent(k) => JoinedAt(k, FirstBlack(stdin[k + 1]))

\* what holds of C21: the loop reads one more line per final Backslash span,
\* and the join is made when the next line starts with its first Black span
\* or has only Backslash spans before it; otherwise the first Delim span of
\* the next line is appended to the field instead, and the Black span after it
\* starts a field of its own, unless the list of fields is full
C21_JoinWithoutDelimBefore ==
  (read.n = -1 /\ ~read.r /\ read.pc # "raised") =>
    /\ OneMoreLinePerBackslash
    /\ \A k \in 1..Len(stdin) :
         FollowsContent(k) =>
           LET j == FirstBlack(stdin[k + 1])
           IN IF \A i \in 1..(j - 1) : stdin[k + 1].spans[i][1] = "Backslash"
              THEN JoinedAt(k, j)
              ELSE JoinedAt(k, CHOOSE i \in 1..(j - 1) :
                                 /\ stdin[k + 1].spans[i][1] = "Delim"
                                 /\ \A h \in 1..(i - 1) :
                                      stdin[k + 1].spans[h][1] = "Backslash")

\* C22: read without -n assigns every name once on every path, also at the
\* end of the input: the i-th name gets the i-th field, or the empty string
\* when there are fewer fields, and REPLY is the name when none is given; the
\* status is 1 when the end of the input came before a line with a newline
\* completed the read, and 0 otherwise
C22_NamesAssigned ==
  (read.n = -1 /\ read.pc = "done") =>
    /\ read.names # <<>>
    /\ read.assigned = read.names
    /\ \A i \in 1..Len(read.names) :
         mem.vars[read.names[i]] =
           Str(IF i <= Len(read.parts) THEN read.parts[i] ELSE <<>>)
    /\ \A name \in {"REPLY", "x", "y", "z"} :
         (\A i \in 1..Len(read.names) : read.names[i] # name) => mem.vars[name] = Undef
    /\ read.result = IF read.eof THEN 1
                     ELSE IF stdin[Len(stdin)].newline THEN 0 ELSE 1

\* 'read x y' has met the end of the input after a continued line of one field
C22_Witness ==
  /\ read.pc = "done"
  /\ read.names = <<"x", "y">>
  /\ read.eof
  /\ Len(stdin) = 1
  /\ stdin[1].newline
  /\ Len(read.parts) = 1
  /\ mem.vars["x"] = Str(read.parts[1])
  /\ mem.vars["y"] = Str(<<>>)
  /\ read.result = 1

\* the characters of the fields
FieldChars(parts) == {parts[i][j] : <<i, j>> \in {p \in (1..Len(parts)) \X (1..MaxSpans * 2) :
                                                  p[2] <= Len(parts[p[1]])}}

\* C29: from an empty list of fields with join_next false and max_results >= 1,
\* join_next is true only when there is a field, after every iteration and
\* from line to line; the Delim branch never indexes an empty list, and the
\* text of a Backslash span is in no field
C29_JoinNeedsField ==
  read.max_results >= 1 =>
    /\ read.pc # "raised"
    /\ read.join_next => read.parts # <<>>
    /\ \A k \in 1..Len(read.trace) :
         LET it == read.trace[k]
         IN /\ it.join_before => it.before # <<>>
            /\ it.join_after => it.after # <<>>
            /\ it.span_type = "Backslash" => it.after = it.before
    /\ ~read.r => "\\" \notin FieldChars(read.parts)

\* a line of a Backslash span, a Delim span and a word, and after a Backslash
\* span at its end a line that starts with a Delim span, which is joined
C29_Witness ==
  /\ read.pc = "done"
  /\ ~read.r
  /\ Len(stdin) = 2
  /\ Len(read.trace) = 5
  /\ read.trace[1].span_type = "Backslash"
  /\ read.trace[2].span_type = "Delim"
  /\ read.trace[3].span_type = "Black"
  /\ read.trace[4].span_type = "Backslash"
  /\ read.trace[5].span_type = "Delim"
  /\ read.trace[5].join_before
  /\ read.trace[5].after = <<SpanText("Black", 3) \o <<" ">>>>

----------------------------------------------------------------------------
(* echo, unset, cd and shift: the call and what it leaves behind           *)

\* no builtin of this section has been called
NoBuiltin ==
  [name |-> "", argv |-> <<>>, status |-> 0, raised |-> "", calls |-> 0, log |-> <<>>]

\* the shell options of the model (state.SET_OPTIONS): letter and name
SET_OPTIONS == <<<<"e", "errexit">>, <<"u", "nounset">>>>
OptionNames == {SET_OPTIONS[i][2] : i \in 1..Len(SET_OPTIONS)}

\* the options of shopt that are not options of set
SHOPT_OPTIONS == <<"nullglob">>
ShoptNames == {SHOPT_OPTIONS[i] : i \in 1..Len(SHOPT_OPTIONS)}

NoOptions == [name \in OptionNames \cup ShoptNames |-> FALSE]

\* no flag on any variable
NoFlags == readonly = {} /\ exported = {} /\ declared = {}

\* the variables the builtins leave alone but for export, set and shopt
flagsAndOpts == <<readonly, exported, declared, exec_opts>>

BuiltinIdle ==
  /\ builtin = NoBuiltin
  /\ stdout = <<>>
  /\ NoFlags
  /\ exec_opts = NoOptions
  /\ cwd = <<>>
  /\ dir_stack = <<>>

\* the call has returned status
Returns(name, argv, status, log) ==
  [name |-> name, argv |-> argv, status |-> status, raised |-> "",
   calls |-> builtin.calls + 1, log |-> log]

\* the call has raised an exception
Raises(name, argv, exception, log) ==
  [name |-> name, argv |-> argv, status |-> 0, raised |-> exception,
   calls |-> builtin.calls + 1, log |-> log]

----------------------------------------------------------------------------
(* echo (core/builtin.py Echo).  Arguments are sequences of characters;    *)
(* what is written is a sequence of code points.  The code is Python 2: a  *)
(* string is a byte string (str) or a unicode string.                      *)

\* ord(), for the characters of the model
Ord(ch) ==
  IF \E d \in 1..10 : Digits[d] = ch THEN 48 + DigitValue(ch)
  ELSE CASE ch = "\\" -> 92 [] ch = "-" -> 45 [] ch = "/" -> 47 [] ch = "a" -> 97
         [] ch = "b" -> 98 [] ch = "c" -> 99 [] ch = "e" -> 101 [] ch = "n" -> 110
         [] ch = "x" -> 120 [] ch = "\n" -> 10 [] ch = " " -> 32 [] ch = "U" -> 85
         [] ch = "f" -> 102 [] ch = "u" -> 117

\* a string as code points
OrdAll(s) == [i \in 1..Len(s) |-> Ord(s[i])]

OctalDigits == {"0", "1", "2", "3", "4", "5", "6", "7"}
DecimalDigits == OctalDigits \cup {"8", "9"}
HexDigits == DecimalDigits \cup {"a", "b", "c", "d", "e", "f", "A", "B", "C", "D", "E", "F"}

\* the keys of _ONE_CHAR
OneCharKeys == {"0", "a", "b", "e", "E", "f", "n", "r", "t", "v", "\\"}

\* _ONE_CHAR: the code point of the control character
ONE_CHAR(ch) ==
  CASE ch = "0" -> 0 [] ch = "a" -> 7 [] ch = "b" -> 8 [] ch \in {"e", "E"} -> 27
    [] ch = "f" -> 12 [] ch = "n" -> 10 [] ch = "r" -> 13 [] ch = "t" -> 9
    [] ch = "v" -> 11 [] ch = "\\" -> 92

\* how many characters of s from at on are in class, at most max: {m,n} and +
RunLen(s, at, class, max) ==
  CHOOSE n \in 0..max :
    /\ \A i \in 0..(n - 1) : at + i <= Len(s) /\ s[at + i] \in class
    /\ n = max \/ at + n > Len(s) \/ s[at + n] \notin class

\* s has a backslash at position at and then one of the characters of class
Escape(s, at, class) == s[at] = "\\" /\ at + 1 <= Len(s) /\ s[at + 1] \in class

\* backslash, a letter, and 1 to max digits: the length matched, 0 for no match
EscapeDigits(s, at, letter, digits, max) ==
  IF Escape(s, at, {letter}) /\ RunLen(s, at + 2, digits, max) >= 1
  THEN 2 + RunLen(s, at + 2, digits, max) ELSE 0

\* ECHO_LEXER: the patterns in order, each with the length it matches at
\* position at (0 for no match).  The dot matches any character but a
\* newline, and $ matches at the end of the string and before a newline that
\* ends it.  The last pattern of the table, backslash and NUL, is matched as
\* long by the pattern backslash and any character above it, and is never
\* chosen.
ECHO_LEXER(s, at) ==
  << [id |-> "Char_OneChar", len |-> IF Escape(s, at, OneCharKeys) THEN 2 ELSE 0],
     [id |-> "Char_Stop", len |-> IF Escape(s, at, {"c"}) THEN 2 ELSE 0],
     [id |-> "Char_Octal", len |-> EscapeDigits(s, at, "0", OctalDigits, 3)],
     [id |-> "Char_Hex", len |-> EscapeDigits(s, at, "x", HexDigits, 2)],
     [id |-> "Char_Unicode4", len |-> EscapeDigits(s, at, "u", DecimalDigits, 4)],
     [id |-> "Char_Unicode8", len |-> EscapeDigits(s, at, "U", DecimalDigits, 8)],
     [id |-> "Char_Literals",
      len |-> RunLen(s, at, {s[i] : i \in 1..Len(s)} \ {"\\"}, Len(s))],
     [id |-> "Char_Literals",
      len |-> IF Escape(s, at, {s[i] : i \in 1..Len(s)} \ {"\n"}) THEN 2 ELSE 0],
     [id |-> "Char_Literals",
      len |-> IF s[at] = "\\" /\ (at = Len(s) \/ (at + 1 = Len(s) /\ s[Len(s)] = "\n"))
              THEN 1 ELSE 0] >>

\* the longest of the matches, the first of the table among equals
Longest(lens) ==
  CHOOSE k \in 1..Len(lens) :
    /\ \A j \in 1..Len(lens) : lens[j] <= lens[k]
    /\ \A j \in 1..(k - 1) : lens[j] < lens[k]

\* the longest match at position at: its id and its length
LongestMatch(s, at) ==
  LET table == ECHO_LEXER(s, at)
      lens == [j \in 1..Len(table) |-> table[j].len]
  IN  table[Longest(lens)]

\* what stands for a token where no pattern matches: the lexer raises
\* AssertionError when it is asked for that token
NoMatch == [id |-> "NoMatch", value |-> <<>>]

\* SimpleLexer.Tokens: the tokens of s from at on, as (id, value) pairs, one
\* at a time; the sequence ends at the end of s or where no pattern matches
RECURSIVE TokensFrom(_, _)
TokensFrom(s, at) ==
  IF at > Len(s) THEN <<>>
  ELSE LET m == LongestMatch(s, at)
       IN  IF m.len = 0 THEN <<NoMatch>>
           ELSE <<[id |-> m.id, value |-> SubSeq(s, at, at + m.len - 1)]>>
                  \o TokensFrom(s, at + m.len)

Tokens(s) == TokensFrom(s, 1)

\* the value of a hexadecimal or octal digit
HexValue(ch) ==
  IF ch \in DecimalDigits THEN DigitValue(ch)
  ELSE CASE ch \in {"a", "A"} -> 10 [] ch \in {"b", "B"} -> 11 [] ch \in {"c", "C"} -> 12
         [] ch \in {"d", "D"} -> 13 [] ch \in {"e", "E"} -> 14 [] ch \in {"f", "F"} -> 15

\* int(s, base)
RECURSIVE IntBase(_, _)
IntBase(s, base) ==
  IF s = <<>> THEN 0
  ELSE base * IntBase(SubSeq(s, 1, Len(s) - 1), base) + HexValue(s[Len(s)])

\* the decoded part is a byte string or a unicode string, or None for \c,
\* or an exception is raised
NonePart == [tag |-> "None", unicode |-> FALSE, s |-> <<>>]
Part(s) == [tag |-> "Part", unicode |-> FALSE, s |-> s]
UnicodePart(s) == [tag |-> "Part", unicode |-> TRUE, s |-> s]
RaisedPart(exception) == [tag |-> exception, unicode |-> FALSE, s |-> <<>>]

\* unichr(i): a unicode string, or ValueError above the last code point,
\* 0x10FFFF (on a build whose unicode strings hold every code point)
MaxCodePoint == 1114111
Unichr(i) == IF i > MaxCodePoint THEN RaisedPart("ValueError") ELSE UnicodePart(<<i>>)

\* the hexadecimal digits without the leading zeros
RECURSIVE Significant(_)
Significant(s) == IF s # <<>> /\ s[1] = "0" THEN Significant(Tail(s)) ELSE s

\* int(s, 16) is above the largest int of C, 0x7FFFFFFF: more than eight
\* significant digits, or eight with the first one 8 or more
ExceedsInt(s) ==
  LET d == Significant(s)
  IN  Len(d) > 8 \/ (Len(d) = 8 /\ HexValue(d[1]) >= 8)

\* unichr(int(s, 16)): unichr takes its argument as an int of C and raises
\* OverflowError for a larger one, before the code point is looked at
UnichrInt16(s) ==
  IF ExceedsInt(s) THEN RaisedPart("OverflowError") ELSE Unichr(IntBase(s, 16))

\* _EvalStringPart
EvalStringPart(id, value) ==
  CASE id = "Char_OneChar" -> Part(<<ONE_CHAR(value[2])>>)
    [] id = "Char_Stop" -> NonePart
    [] id = "Char_Octal" -> Part(<<IntBase(SubSeq(value, 3, Len(value)), 8) % 256>>)
    [] id = "Char_Hex" -> Part(<<IntBase(SubSeq(value, 3, Len(value)), 16)>>)
    [] id = "Char_Unicode4" -> UnichrInt16(SubSeq(value, 3, Len(value)))
    [] id = "Char_Unicode8" -> UnichrInt16(SubSeq(value, 3, Len(value)))
    [] id = "Char_Literals" -> Part(OrdAll(value))
    [] OTHER -> RaisedPart("AssertionError")

\* the flags of echo
EchoFlags == {"e", "n"}

\* the argument is a dash and one or more flags of echo
LooksLikeFlags(a) == Len(a) >= 2 /\ a[1] = "-" /\ \A i \in 2..Len(a) : a[i] \in EchoFlags

\* ParseLikeEcho: the leading arguments that are flags set them; i is the
\* number of arguments taken
RECURSIVE ParseLikeEchoFrom(_, _)
ParseLikeEchoFrom(argv, arg) ==
  IF arg.i < Len(argv) /\ LooksLikeFlags(argv[arg.i + 1])
  THEN LET a == argv[arg.i + 1]
       IN  ParseLikeEchoFrom(argv, [e |-> arg.e \/ \E i \in 2..Len(a) : a[i] = "e",
                                    n |-> arg.n \/ \E i \in 2..Len(a) : a[i] = "n",
                                    i |-> arg.i + 1])
  ELSE arg

ParseLikeEcho(argv) == ParseLikeEchoFrom(argv, [e |-> FALSE, n |-> FALSE, i |-> 0])

\* every code point of s is ASCII
IsAscii(s) == \A k \in 1..Len(s) : s[k] <= 127

\* the code points of the parts, one part after the other
RECURSIVE Concat(_)
Concat(parts) == IF parts = <<>> THEN <<>> ELSE parts[1].s \o Concat(Tail(parts))

\* ''.join(parts): with a unicode string among the parts the byte strings
\* are decoded as ASCII, and UnicodeDecodeError is raised for a byte above 127
Join(parts) ==
  LET unicode == \E i \in 1..Len(parts) : parts[i].unicode
      decoded == \A i \in 1..Len(parts) : parts[i].unicode \/ IsAscii(parts[i].s)
  IN  IF unicode /\ ~decoded THEN RaisedPart("UnicodeDecodeError")
      ELSE [tag |-> "Part", unicode |-> unicode, s |-> Concat(parts)]

\* the encoding of standard output: none when it is a pipe or a file, and
\* then a unicode string is encoded as ASCII, or that of the terminal or of
\* PYTHONIOENCODING
StdoutEncodings == {"ascii", "utf-8"}

\* sys.stdout.write(a) raises UnicodeEncodeError
WriteRaises(a, encoding) == a.unicode /\ encoding = "ascii" /\ ~IsAscii(a.s)

\* the loops that write the arguments, a space before each but the first,
\* from argument i on: what is written, and the exception that ends it
RECURSIVE WriteArgsFrom(_, _, _, _)
WriteArgsFrom(argv, i, out, encoding) ==
  IF i > Len(argv) THEN [out |-> out, raised |-> ""]
  ELSE LET sep == IF i # 1 THEN out \o <<32>> ELSE out
       IN  IF WriteRaises(argv[i], encoding)
           THEN [out |-> sep, raised |-> "UnicodeEncodeError"]
           ELSE WriteArgsFrom(argv, i + 1, sep \o argv[i].s, encoding)

WriteArgs(argv, encoding) == WriteArgsFrom(argv, 1, <<>>, encoding)

\* an exception leaves the loops before anything is written
EchoRaises(exception) == [out |-> <<>>, status |-> 0, raised |-> exception]

\* \c: the parts are joined, what is there is written and the call returns
EchoStop(new_argv, parts, encoding) ==
  LET a == Join(parts)
      w == WriteArgs(Append(new_argv, a), encoding)
  IN  IF a.tag # "Part" THEN EchoRaises(a.tag)
      ELSE [out |-> w.out, status |-> 0, raised |-> w.raised]

\* the normal return: the arguments, and the newline without -n
EchoAll(argv, n, encoding) ==
  LET w == WriteArgs(argv, encoding)
  IN  IF w.raised # "" THEN [out |-> w.out, status |-> 0, raised |-> w.raised]
      ELSE [out |-> w.out \o (IF n THEN <<>> ELSE <<10>>), status |-> 0, raised |-> ""]

\* the loops of echo -e: the tokens of argument i from token k on, with the
\* arguments decoded so far and the parts of argument i so far
RECURSIVE EchoDecode(_, _, _, _, _, _, _)
EchoDecode(argv, i, k, new_argv, parts, n, encoding) ==
  IF i > Len(argv) THEN EchoAll(new_argv, n, encoding)
  ELSE LET toks == Tokens(argv[i])
       IN  IF k > Len(toks)
           THEN LET a == Join(parts)
                IN  IF a.tag # "Part" THEN EchoRaises(a.tag)
                    ELSE EchoDecode(argv, i + 1, 1, Append(new_argv, a), <<>>, n, encoding)
           ELSE IF toks[k] = NoMatch THEN EchoRaises("AssertionError")
           ELSE LET p == EvalStringPart(toks[k].id, toks[k].value)
                IN  IF p.tag = "None" THEN EchoStop(new_argv, parts, encoding)
                    ELSE IF p.tag # "Part" THEN EchoRaises(p.tag)
                    ELSE EchoDecode(argv, i, k + 1, new_argv, Append(parts, p), n, encoding)

\* Echo: what is written, the status, and the exception
EchoResult(argv, encoding) ==
  LET arg == ParseLikeEcho(argv)
      rest == SubSeq(argv, arg.i + 1, Len(argv))
  IN  IF arg.e THEN EchoDecode(rest, 1, 1, <<>>, <<>>, arg.n, encoding)
      ELSE EchoAll([i \in 1..Len(rest) |-> Part(OrdAll(rest[i]))], arg.n, encoding)

\* the characters of the arguments of the model, the most characters in all
\* the arguments of a call, and the most arguments
EchoAlphabet == {"\\", "c", "0"}
MaxEchoChars == 4
MaxEchoArgs == 2

\* the leading flags of a call
EchoFlagArgs ==
  {<<>>, <<<<"-", "e">>>>, <<<<"-", "n">>>>, <<<<"-", "e", "n">>>>,
   <<<<"-", "n">>, <<"-", "e">>>>}

\* the lists of at most k arguments of at most t characters in all
RECURSIVE ArgLists(_, _)
ArgLists(k, t) ==
  IF k = 0 THEN {<<>>}
  ELSE {<<>>} \cup UNION {{<<a>> \o rest : rest \in ArgLists(k - 1, t - Len(a))} :
                          a \in SeqsUpTo(EchoAlphabet, t)}

\* arguments with a newline after a backslash, and with \U and eight digits:
\* \U00110000 is above the last code point, \U00000030 is the digit 0,
\* \U80000000 is above the largest int of C and \U79999999 the largest
\* number of eight decimal digits below it
BackslashNewline == <<"\\", "\n">>
AboveLast == <<"\\", "U", "0", "0", "1", "1", "0", "0", "0", "0">>
BelowLast == <<"\\", "U", "0", "0", "0", "0", "0", "0", "3", "0">>
AboveInt == <<"\\", "U", "8", "0", "0", "0", "0", "0", "0", "0">>
BelowInt == <<"\\", "U", "7", "9", "9", "9", "9", "9", "9", "9">>
EchoMoreArgs ==
  {<<BackslashNewline>>, <<<<"0">> \o BackslashNewline>>, <<BackslashNewline \o <<"0">>>>,
   <<<<"\\", "c">> \o BackslashNewline \o <<"0">>>>,
   <<BackslashNewline \o <<"0", "\\", "c">>>>,
   <<<<"0">>, BackslashNewline \o <<"0">>, <<"\\", "c">>>>,
   <<AboveLast>>, <<BelowLast>>, <<<<"0", "\\", "c">> \o AboveLast>>,
   <<AboveLast, <<"\\", "c">>>>,
   <<AboveInt>>, <<BelowInt>>, <<<<"0">>, AboveInt>>,
   <<<<"0", "\\", "c">> \o AboveInt>>, <<AboveInt \o <<"\\", "c">>>>}

\* arguments with a byte above 127 (\xff, \x99, \0200) and with a unicode
\* string (\u0030, the digit 0, and \u0099, above 127)
ByteFF == <<"\\", "x", "f", "f">>
Byte99 == <<"\\", "x", "9", "9">>
Byte0200 == <<"\\", "0", "2", "0", "0">>
Unicode0030 == <<"\\", "u", "0", "0", "3", "0">>
Unicode0099 == <<"\\", "u", "0", "0", "9", "9">>
StopChars == <<"\\", "c">>
EchoUnicodeArgs ==
  {<<ByteFF \o Unicode0030>>, <<ByteFF \o Unicode0030 \o StopChars>>,
   <<ByteFF \o Unicode0030, <<"0">>>>, <<Byte0200 \o Unicode0030, <<"0">>>>,
   <<ByteFF, Unicode0030>>, <<ByteFF \o StopChars>>, <<Byte99>>,
   <<Unicode0030 \o <<"a">>>>, <<Unicode0030 \o StopChars>>,
   <<Unicode0099>>, <<Unicode0099 \o StopChars>>, <<<<"a">>, Unicode0099>>,
   <<<<"a">>, Unicode0099, <<"b">>>>, <<<<"a">>, Unicode0099 \o StopChars, <<"b">>>>,
   <<StopChars \o Unicode0099>>}

EchoArgs == ArgLists(MaxEchoArgs, MaxEchoChars) \cup EchoMoreArgs \cup EchoUnicodeArgs

\* one call of echo, with standard output a pipe or a terminal
Echo ==
  /\ builtin.name = ""
  /\ \E flags \in EchoFlagArgs, args \in EchoArgs, encoding \in StdoutEncodings :
       LET r == EchoResult(flags \o args, encoding)
           log == <<[encoding |-> encoding]>>
       IN  /\ builtin' = IF r.raised # "" THEN Raises("echo", flags \o args, r.raised, log)
                         ELSE Returns("echo", flags \o args, r.status, log)
           /\ stdout' = r.out
  /\ UNCHANGED <<notBuiltin, funcs, mem, flagsAndOpts, cwd, dir_stack>>

\* the arguments of the call after the flags
EchoRest == SubSeq(builtin.argv, ParseLikeEcho(builtin.argv).i + 1, Len(builtin.argv))

\* argument i has a \c token at k
IsStop(i, k) ==
  /\ i \in 1..Len(EchoRest)
  /\ k \in 1..Len(Tokens(EchoRest[i]))
  /\ Tokens(EchoRest[i])[k].id = "Char_Stop"

\* the first \c token, arguments left to right, is token k of argument i
FirstStop(i, k) ==
  /\ IsStop(i, k)
  /\ \A j \in 1..i :
       \A m \in 1..Len(Tokens(EchoRest[j])) : (j < i \/ m < k) => ~IsStop(j, m)

\* token m of argument j decodes to a string
Decodes(j, m) ==
  LET t == Tokens(EchoRest[j])[m]
  IN  t # NoMatch /\ EvalStringPart(t.id, t.value).tag = "Part"

\* decoding meets the first \c token, token k of argument i: no token before
\* it raises
MeetsStop(i, k) ==
  /\ FirstStop(i, k)
  /\ \A j \in 1..i :
       \A m \in 1..Len(Tokens(EchoRest[j])) : (j < i \/ m < k) => Decodes(j, m)

\* the first n tokens of s, decoded
RECURSIVE Decoded(_, _)
Decoded(s, n) ==
  IF n = 0 THEN <<>>
  ELSE Decoded(s, n - 1) \o EvalStringPart(Tokens(s)[n].id, Tokens(s)[n].value).s

\* the first i arguments decoded, the last one up to token k, with a space
\* between them
RECURSIVE JoinedUpTo(_, _)
JoinedUpTo(i, k) ==
  IF i = 1 THEN Decoded(EchoRest[1], k)
  ELSE JoinedUpTo(i - 1, Len(Tokens(EchoRest[i - 1]))) \o <<32>> \o Decoded(EchoRest[i], k)

\* C23: with echo -e, the first \c token met ends the output: what is written
\* is the decoded arguments up to it with a space between them, nothing of
\* what follows it and no newline, and the status is 0
C23_StopEndsOutput ==
  (builtin.name = "echo" /\ ParseLikeEcho(builtin.argv).e) =>
    \A i \in 1..Len(EchoRest) :
      \A k \in 1..Len(Tokens(EchoRest[i])) :
        MeetsStop(i, k) =>
          /\ stdout = JoinedUpTo(i, k - 1)
          /\ builtin.status = 0
          /\ builtin.raised = ""

\* what the code does: at the \c it joins the parts and writes the
\* arguments, and either can raise; when the call returns, what is written
\* and the status are those of the claim
C23_WhenItReturns ==
  (builtin.name = "echo" /\ ParseLikeEcho(builtin.argv).e) =>
    \A i \in 1..Len(EchoRest) :
      \A k \in 1..Len(Tokens(EchoRest[i])) :
        MeetsStop(i, k) =>
          /\ builtin.raised \in {"", "UnicodeDecodeError", "UnicodeEncodeError"}
          /\ builtin.raised = "" => stdout = JoinedUpTo(i, k - 1) /\ builtin.status = 0
          /\ builtin.raised = "UnicodeDecodeError" => stdout = <<>>

----------------------------------------------------------------------------
(* unset (core/builtin.py Unset)                                           *)

\* the flags of the variables, next to the store
Flags == [readonly |-> readonly, exported |-> exported, declared |-> declared]

\* there is a variable of that name, with a value or without
HasCell(m, fl, name) == m.vars[name] # Undef \/ name \in fl.declared

\* Mem.Unset: ok is false for a readonly variable, found is false when there
\* is no variable of that name; the variable goes with its flags
MemUnset(m, fl, name) ==
  IF ~HasCell(m, fl, name) THEN [ok |-> TRUE, found |-> FALSE, mem |-> m, flags |-> fl]
  ELSE IF name \in fl.readonly THEN [ok |-> FALSE, found |-> TRUE, mem |-> m, flags |-> fl]
  ELSE [ok |-> TRUE, found |-> TRUE, mem |-> [m EXCEPT !.vars[name] = Undef],
        flags |-> [fl EXCEPT !.exported = @ \ {name}, !.declared = @ \ {name}]]

\* if name in funcs: del funcs[name]
DelFunc(fs, name) == fs \ {name}

\* a bug: the bare form removes the function whether a variable was found or not
UnsetBareFunc_Always(found, fs, name) == DelFunc(fs, name)

\* the bare form: the function goes only when no variable was found
UnsetBareFunc(found, fs, name) == IF ~found THEN DelFunc(fs, name) ELSE fs

\* the loop of Unset has not returned
UnsetState(m, fl, fs) ==
  [mem |-> m, flags |-> fl, funcs |-> fs, status |-> 0, returned |-> FALSE, log |-> <<>>]

\* what one turn of the loop leaves in the log
UnsetEntry(st, name, m, fs, ok) ==
  [name |-> name, mem |-> st.mem, flags |-> st.flags, funcs |-> st.funcs, mem_after |-> m,
   funcs_after |-> fs, ok |-> ok]

\* one turn of the loop of Unset
UnsetOne(arg, st, name) ==
  IF arg.f
  THEN [st EXCEPT !.funcs = DelFunc(st.funcs, name),
                  !.log = Append(@, UnsetEntry(st, name, st.mem, DelFunc(st.funcs, name), TRUE))]
  ELSE LET r == MemUnset(st.mem, st.flags, name)
           fs == IF arg.v THEN st.funcs ELSE UnsetBareFunc(r.found, st.funcs, name)
       IN  IF ~r.ok
           THEN [st EXCEPT !.status = 1, !.returned = TRUE,
                           !.log = Append(@, UnsetEntry(st, name, st.mem, st.funcs, FALSE))]
           ELSE [st EXCEPT !.mem = r.mem, !.flags = r.flags, !.funcs = fs,
                           !.log = Append(@, UnsetEntry(st, name, r.mem, fs, TRUE))]

\* the loop of Unset over the names from the k-th on
RECURSIVE UnsetFrom(_, _, _, _)
UnsetFrom(arg, names, k, st) ==
  IF st.returned \/ k > Len(names) THEN st
  ELSE UnsetFrom(arg, names, k + 1, UnsetOne(arg, st, names[k]))

\* the names of the model: variables, functions, both or neither
UnsetNames == {"x", "y"}
MaxUnsetNames == 2

MaxUnsetCalls == 2

\* one call of unset: the flags -v and -f as parsed, and the names
Unset ==
  /\ builtin.calls < MaxUnsetCalls
  /\ builtin.raised = ""
  /\ \E v \in BOOLEAN, f \in BOOLEAN, names \in SeqsUpTo(UnsetNames, MaxUnsetNames) :
       LET arg == [v |-> v, f |-> f, names |-> names]
           st == UnsetFrom(arg, names, 1, UnsetState(mem, Flags, funcs))
       IN  /\ builtin' = Returns("unset", arg, st.status, st.log)
           /\ mem' = st.mem
           /\ funcs' = st.funcs
           /\ exported' = st.flags.exported
           /\ declared' = st.flags.declared
           /\ stdout' = <<>>
  /\ UNCHANGED <<notBuiltin, readonly, exec_opts, cwd, dir_stack>>

\* arg.split('=', 1): the name, and the value or None
SplitAt(word, k) ==
  IF k > Len(word) THEN [name |-> word, has_val |-> FALSE, val |-> <<>>]
  ELSE [name |-> SubSeq(word, 1, k - 1), has_val |-> TRUE, val |-> SubSeq(word, k + 1, Len(word))]
SplitEq(word) ==
  SplitAt(word, IF \E k \in 1..Len(word) : word[k] = "="
                THEN CHOOSE k \in 1..Len(word) :
                       word[k] = "=" /\ \A j \in 1..(k - 1) : word[j] # "="
                ELSE Len(word) + 1)

\* lex.VAR_NAME_RE: a letter or an underscore, then letters, digits and
\* underscores
NameStart == {"x", "y", "a", "b", "_"}
IsVarName(name) ==
  /\ name # <<>>
  /\ name[1] \in NameStart
  /\ \A k \in 2..Len(name) : name[k] \in NameStart \/ \E d \in 1..10 : Digits[d] = name[k]

\* the variable a name of one letter stands for
VarOf(name) == name[1]

\* Mem.SetVar with the flag Exported: a variable with the readonly flag is
\* not assigned to; with None for value the variable keeps its value, and is
\* created without one when it does not exist
MemSetVarExported(m, fl, name, has_val, val) ==
  IF has_val /\ name \in fl.readonly
  THEN [raised |-> "ReadOnlyViolation", mem |-> m, flags |-> fl]
  ELSE IF has_val
  THEN [raised |-> "", mem |-> [m EXCEPT !.vars[name] = Str(val)],
        flags |-> [fl EXCEPT !.exported = @ \cup {name}, !.declared = @ \ {name}]]
  ELSE [raised |-> "", mem |-> m,
        flags |-> [fl EXCEPT !.exported = @ \cup {name},
                             !.declared = IF HasCell(m, fl, name) THEN @ ELSE @ \cup {name}]]

\* Mem.ClearFlag of the flag Exported
MemClearExported(fl, name) == [fl EXCEPT !.exported = @ \ {name}]

\* one turn of the loops of Export
ExportOne(arg, st, word) ==
  IF arg.n
  THEN IF ~IsVarName(word) THEN [st EXCEPT !.raised = "UsageError"]
       ELSE [st EXCEPT !.flags = MemClearExported(st.flags, VarOf(word))]
  ELSE LET parts == SplitEq(word)
       IN  IF ~IsVarName(parts.name) THEN [st EXCEPT !.raised = "UsageError"]
           ELSE LET r == MemSetVarExported(st.mem, st.flags, VarOf(parts.name),
                                           parts.has_val, parts.val)
                IN  [st EXCEPT !.raised = r.raised, !.mem = r.mem, !.flags = r.flags]

\* the loops of Export over the words from the k-th on
RECURSIVE ExportFrom(_, _, _, _)
ExportFrom(arg, argv, k, st) ==
  IF st.raised # "" \/ k > Len(argv) THEN st
  ELSE ExportFrom(arg, argv, k + 1, ExportOne(arg, st, argv[k]))

\* the words of a call of export: names, names with a value, and words that
\* are not names
ExportArgs ==
  {<<>>, <<<<"x">>>>, <<<<"y">>>>, <<<<"x", "=", "2">>>>, <<<<"y", "=">>>>,
   <<<<"x", "=", "a", "=", "b">>>>, <<<<"1", "x">>>>, <<<<"=", "2">>>>,
   <<<<"x", "=", "2">>, <<"y">>>>, <<<<"y">>, <<"1", "x">>>>, <<<<"1", "x">>, <<"y">>>>}

\* one call of export: the flag -n as parsed, and the words
Export ==
  /\ builtin.calls < MaxUnsetCalls
  /\ builtin.raised = ""
  /\ \E n \in BOOLEAN, argv \in ExportArgs :
       LET arg == [n |-> n, argv |-> argv]
           st == ExportFrom(arg, argv, 1, [raised |-> "", mem |-> mem, flags |-> Flags])
       IN  /\ builtin' = IF st.raised # "" THEN Raises("export", arg, st.raised, <<>>)
                         ELSE Returns("export", arg, 0, <<>>)
           /\ mem' = st.mem
           /\ exported' = st.flags.exported
           /\ declared' = st.flags.declared
           /\ stdout' = <<>>
  /\ UNCHANGED <<notBuiltin, funcs, readonly, exec_opts, cwd, dir_stack>>

\* any variables, readonly or not, and any functions
UnsetInit ==
  /\ builtin = NoBuiltin
  /\ stdout = <<>> /\ cwd = <<>> /\ dir_stack = <<>>
  /\ exported = {} /\ declared = {} /\ exec_opts = NoOptions
  /\ \E set \in SUBSET UnsetNames :
       /\ mem = [NewMem(<<>>, Str(<<"1">>)) EXCEPT
                   !.vars = [n \in VarNames |-> IF n \in set THEN Str(<<"1">>) ELSE @[n]]]
       /\ readonly \in SUBSET set
  /\ funcs \in SUBSET UnsetNames
  /\ path_val = [tag |-> "Undef", s |-> <<>>]
  /\ files = {}
  /\ call = NoCall

\* the turn of the loop found a variable of that name
Found(e) == HasCell(e.mem, e.flags, e.name)

\* the turn of the loop left the variables as they were
SameVars(e) == e.mem_after = e.mem

\* C24: bare unset tries the variable first and removes the function only
\* when no variable was found; a readonly variable makes unset return 1,
\* without an exception and with the function of that name untouched;
\* unset -f never changes a variable and unset -v never changes a function
C24_Unset ==
  builtin.name = "unset" =>
    /\ builtin.raised = ""
    /\ \A i \in 1..Len(builtin.log) :
         LET e == builtin.log[i]
         IN  /\ (~builtin.argv.f /\ ~builtin.argv.v /\ Found(e) /\ e.name \notin readonly) =>
                  /\ e.mem_after = [e.mem EXCEPT !.vars[e.name] = Undef]
                  /\ e.funcs_after = e.funcs
             /\ (~builtin.argv.f /\ ~builtin.argv.v /\ ~Found(e)) =>
                  /\ SameVars(e)
                  /\ e.funcs_after = e.funcs \ {e.name}
             /\ (~builtin.argv.f /\ Found(e) /\ e.name \in readonly) =>
                  /\ builtin.status = 1
                  /\ i = Len(builtin.log)
                  /\ SameVars(e)
                  /\ e.funcs_after = e.funcs
             /\ builtin.argv.f => SameVars(e)
             /\ (builtin.argv.v /\ ~builtin.argv.f) => e.funcs_after = e.funcs
             /\ i < Len(builtin.log) =>
                  /\ builtin.log[i + 1].mem = e.mem_after
                  /\ builtin.log[i + 1].funcs = e.funcs_after
    /\ builtin.log # <<>> =>
         /\ mem = Last(builtin.log).mem_after
         /\ funcs = Last(builtin.log).funcs_after
    /\ builtin.status = 1 =>
         /\ builtin.log # <<>>
         /\ ~Last(builtin.log).ok

\* bare unset x y: x is a variable and a function, and only the variable
\* went; y is a readonly variable and a function, and unset returned 1
C24_Witness ==
  /\ builtin.name = "unset"
  /\ ~builtin.argv.f /\ ~builtin.argv.v
  /\ builtin.argv.names = <<"x", "y">>
  /\ builtin.log[1].mem.vars["x"] # Undef
  /\ "x" \in builtin.log[1].funcs
  /\ mem.vars["x"] = Undef
  /\ readonly = {"y"}
  /\ funcs = {"x", "y"}
  /\ builtin.status = 1

----------------------------------------------------------------------------
(* cd, pushd, popd and dirs (core/builtin.py Cd, Pushd, Popd, Dirs).       *)
(* Directories are absolute paths.                                         *)

\* the directories that exist, and one that does not
Directories == {<<"/", "a">>, <<"/", "b">>}
NoDir == <<"/", "x">>

\* None, where a directory is expected
NoEntry == <<>>

\* the directory stack (DirStack, not in this file): Reset empties it, Push
\* puts an top on top, Pop takes the top top off and returns it, or
\* returns None when the stack is empty, Iter goes from the top down
DirStackReset == <<>>
DirStackPush(dstack, top) == Append(dstack, top)
DirStackPop(dstack) ==
  IF dstack = <<>> THEN [top |-> NoEntry, dstack |-> dstack]
  ELSE [top |-> dstack[Len(dstack)], dstack |-> SubSeq(dstack, 1, Len(dstack) - 1)]
DirStackIter(dstack) == [i \in 1..Len(dstack) |-> dstack[Len(dstack) + 1 - i]]

\* os.chdir raises OSError unless the directory exists
ChdirFails(dest_dir) == dest_dir \notin Directories

\* Cd has returned or raised before os.chdir
CdEarly(m, status, exception, out) ==
  [status |-> status, raised |-> exception, mem |-> m, chdir |-> "none", dest |-> <<>>,
   out |-> out, reset |-> FALSE]

\* Cd from the assert on PWD on: OLDPWD is set, then os.chdir is called, and
\* PWD is set and the directory stack reset when it has succeeded
CdTo(m, dest_dir, out) ==
  LET pwd == GetVar(m, "PWD")
  IN  IF pwd.tag # "Str" THEN CdEarly(m, 0, "AssertionError", out)
      ELSE LET m1 == SetGlobalString(m, "OLDPWD", pwd.s)
           IN  IF ChdirFails(dest_dir)
               THEN [status |-> 1, raised |-> "", mem |-> m1, chdir |-> "failed",
                     dest |-> dest_dir, out |-> out, reset |-> FALSE]
               ELSE [status |-> 0, raised |-> "", mem |-> SetGlobalString(m1, "PWD", dest_dir),
                     chdir |-> "ok", dest |-> dest_dir, out |-> out, reset |-> TRUE]

\* cd -: the directory is the value of OLDPWD, and it is printed
CdDash(m) ==
  LET old == GetVar(m, "OLDPWD")
  IN  CASE old.tag = "Undef" -> CdEarly(m, 1, "", <<>>)
        [] old.tag = "Str" -> CdTo(m, old.s, OrdAll(old.s) \o <<10>>)
        [] old.tag = "StrArray" -> CdEarly(m, 0, "AssertionError", <<>>)

\* Cd with the directory known
CdDest(m, dest_dir) == IF dest_dir = <<"-">> THEN CdDash(m) ELSE CdTo(m, dest_dir, <<>>)

\* Cd: the directory is the first argument, or the value of HOME
CdResult(argv, m) ==
  IF argv # <<>> THEN CdDest(m, argv[1])
  ELSE LET val == GetVar(m, "HOME")
       IN  CASE val.tag = "Undef" -> CdEarly(m, 1, "", <<>>)
             [] val.tag = "Str" -> CdDest(m, val.s)
             [] val.tag = "StrArray" -> CdEarly(m, 1, "", <<>>)

\* the arguments of a call of cd, and the most calls
CdArgs == {<<>>, <<<<"-">>>>} \cup {<<d>> : d \in Directories \cup {NoDir}}
MaxCdCalls == 3

\* what a call of cd leaves in the log
CdEntry(argv, r) ==
  [argv |-> argv, pwd |-> GetVar(mem, "PWD"), oldpwd |-> GetVar(mem, "OLDPWD"),
   pwd_after |-> GetVar(r.mem, "PWD"), oldpwd_after |-> GetVar(r.mem, "OLDPWD"),
   status |-> r.status, raised |-> r.raised, chdir |-> r.chdir, dest |-> r.dest]

\* one call of cd
Cd ==
  /\ builtin.calls < MaxCdCalls
  /\ builtin.raised = ""
  /\ \E argv \in CdArgs :
       LET r == CdResult(argv, mem)
           log == Append(builtin.log, CdEntry(argv, r))
       IN  /\ builtin' = IF r.raised # "" THEN Raises("cd", argv, r.raised, log)
                         ELSE Returns("cd", argv, r.status, log)
           /\ mem' = r.mem
           /\ stdout' = r.out
           /\ cwd' = IF r.chdir = "ok" THEN r.dest ELSE cwd
           /\ dir_stack' = IF r.reset THEN DirStackReset ELSE dir_stack
  /\ UNCHANGED <<notBuiltin, funcs, flagsAndOpts>>

\* print(' '.join(entries))
RECURSIVE JoinSpace(_)
JoinSpace(entries) ==
  IF entries = <<>> THEN <<>>
  ELSE IF Len(entries) = 1 THEN OrdAll(entries[1])
  ELSE OrdAll(entries[1]) \o <<32>> \o JoinSpace(Tail(entries))

\* print of every top, after '%2d  ' of its index from 0 when with_prefix
RECURSIVE PrintEntries(_, _, _)
PrintEntries(entries, i, with_prefix) ==
  IF i >= Len(entries) THEN <<>>
  ELSE (IF with_prefix
        THEN (IF i < 10 THEN <<32>> ELSE <<>>) \o OrdAll(StrOf(i)) \o <<32, 32>>
        ELSE <<>>)
         \o OrdAll(entries[i + 1]) \o <<10>> \o PrintEntries(entries, i + 1, with_prefix)

WITH_PREFIX == 1
WITHOUT_PREFIX == 2
SINGLE_LINE == 3

\* _PrintDirStack: what is written
PrintDirStack(dstack, style) ==
  CASE style = WITH_PREFIX -> PrintEntries(DirStackIter(dstack), 0, TRUE)
    [] style = WITHOUT_PREFIX -> PrintEntries(DirStackIter(dstack), 0, FALSE)
    [] style = SINGLE_LINE -> JoinSpace(DirStackIter(dstack)) \o <<10>>

\* what a call of pushd, popd or dirs leaves
DirResult(status, dir, dstack, out) ==
  [status |-> status, cwd |-> dir, dir_stack |-> dstack, out |-> out]

\* Pushd
PushdResult(argv) ==
  IF Len(argv) <= 0 \/ Len(argv) > 1 THEN DirResult(1, cwd, dir_stack, <<>>)
  ELSE IF ChdirFails(argv[1]) THEN DirResult(1, cwd, dir_stack, <<>>)
  ELSE LET dstack == DirStackPush(dir_stack, argv[1])
       IN  DirResult(0, argv[1], dstack, PrintDirStack(dstack, SINGLE_LINE))

\* Popd: the top is off the stack before os.chdir is tried
PopdResult(argv) ==
  LET p == DirStackPop(dir_stack)
  IN  IF p.top = NoEntry THEN DirResult(1, cwd, p.dstack, <<>>)
      ELSE IF ChdirFails(p.top) THEN DirResult(1, cwd, p.dstack, <<>>)
      ELSE DirResult(0, p.top, p.dstack, PrintDirStack(p.dstack, SINGLE_LINE))

\* DIRS_SPEC.Parse: the flags of the arguments, each a dash and a letter
DirsFlags(argv) == {argv[i][2] : i \in 1..Len(argv)}

\* Dirs
DirsResult(argv) ==
  LET arg == DirsFlags(argv)
  IN  IF "c" \in arg THEN DirResult(0, cwd, DirStackReset, <<>>)
      ELSE IF "v" \in arg THEN DirResult(0, cwd, dir_stack, PrintDirStack(dir_stack, WITH_PREFIX))
      ELSE IF "p" \in arg THEN DirResult(0, cwd, dir_stack, PrintDirStack(dir_stack, WITHOUT_PREFIX))
      ELSE DirResult(0, cwd, dir_stack, PrintDirStack(dir_stack, SINGLE_LINE))

\* the arguments of a call of pushd, popd and dirs
PushdArgs ==
  {<<>>, <<<<"/", "a">>, <<"/", "b">>>>} \cup {<<d>> : d \in Directories \cup {NoDir}}
PopdArgs == {<<>>}
DirsArgs ==
  {<<>>, <<<<"-", "l">>>>, <<<<"-", "p">>, <<"-", "v">>>>, <<<<"-", "v">>, <<"-", "c">>>>}
    \cup {<<<<"-", f>>>> : f \in {"c", "v", "p"}}

\* a call of pushd, popd or dirs: PWD and OLDPWD are not touched
DirCall(name, argv, r) ==
  /\ builtin.calls < MaxCdCalls
  /\ builtin.raised = ""
  /\ builtin' = Returns(name, argv, r.status, builtin.log)
  /\ stdout' = r.out
  /\ cwd' = r.cwd
  /\ dir_stack' = r.dir_stack
  /\ UNCHANGED <<notBuiltin, funcs, mem, flagsAndOpts>>

Pushd == \E argv \in PushdArgs : DirCall("pushd", argv, PushdResult(argv))

Popd == \E argv \in PopdArgs : DirCall("popd", argv, PopdResult(argv))

Dirs == \E argv \in DirsArgs : DirCall("dirs", argv, DirsResult(argv))

\* the shell is in a directory that exists and PWD names it; OLDPWD is not
\* set, or names a directory that may have been removed; HOME is anything;
\* the directory stack is empty or holds one directory
CdInit ==
  /\ builtin = NoBuiltin
  /\ stdout = <<>>
  /\ NoFlags
  /\ exec_opts = NoOptions
  /\ cwd \in Directories
  /\ dir_stack \in {<<>>, <<<<"/", "b">>>>, <<NoDir>>}
  /\ \E old \in {Undef} \cup {Str(d) : d \in Directories \cup {NoDir}},
        home \in {Undef, Str(<<"/", "a">>), StrArray(<<>>)} :
       mem = [NewMem(<<>>, Str(<<"1">>)) EXCEPT
                !.vars["PWD"] = Str(cwd), !.vars["OLDPWD"] = old, !.vars["HOME"] = home]

\* C25: after a successful cd OLDPWD is the previous PWD and PWD is the
\* destination, so that cd - twice restores both; when the directory change
\* fails cd returns 1 and OLDPWD and PWD are what they were
C25_CdVariables ==
  builtin.name = "cd" =>
    \A i \in 1..Len(builtin.log) :
      LET e == builtin.log[i]
      IN  /\ (e.raised = "" /\ e.status = 0) =>
               /\ e.oldpwd_after = e.pwd
               /\ e.pwd_after = Str(e.dest)
          /\ e.chdir = "failed" =>
               /\ e.status = 1
               /\ e.pwd_after = e.pwd
               /\ e.oldpwd_after = e.oldpwd
          /\ (/\ i > 1
              /\ e.argv = <<<<"-">>>> /\ e.status = 0
              /\ builtin.log[i - 1].argv = <<<<"-">>>> /\ builtin.log[i - 1].status = 0) =>
               /\ e.pwd_after = builtin.log[i - 1].pwd
               /\ e.oldpwd_after = builtin.log[i - 1].oldpwd

\* what the code does: the part about success holds, and a failed directory
\* change leaves PWD as it was and OLDPWD equal to PWD
C25_OnSuccess ==
  builtin.name = "cd" =>
    \A i \in 1..Len(builtin.log) :
      LET e == builtin.log[i]
      IN  /\ (e.raised = "" /\ e.status = 0) =>
               /\ e.chdir = "ok"
               /\ e.oldpwd_after = e.pwd
               /\ e.pwd_after = Str(e.dest)
               /\ cwd = e.dest \/ i < Len(builtin.log)
          /\ e.chdir = "failed" =>
               /\ e.status = 1
               /\ e.pwd_after = e.pwd
               /\ e.oldpwd_after = e.pwd
          /\ (/\ i > 1
              /\ e.argv = <<<<"-">>>> /\ e.status = 0
              /\ builtin.log[i - 1].argv = <<<<"-">>>> /\ builtin.log[i - 1].status = 0) =>
               /\ e.pwd_after = builtin.log[i - 1].pwd
               /\ e.oldpwd_after = builtin.log[i - 1].oldpwd

----------------------------------------------------------------------------
(* shift (core/builtin.py Shift)                                           *)

\* Mem.Shift: n positional parameters go, or the status is 1 when there are
\* fewer than n
MemShift(m, n) ==
  IF n <= Len(m.argv)
  THEN [status |-> 0, raised |-> "", mem |-> [m EXCEPT !.argv = SubSeq(@, n + 1, Len(@))]]
  ELSE [status |-> 1, raised |-> "", mem |-> m]

\* the handler of ValueError: the message is formatted with argv[1], and the
\* list has one element
InvalidShiftArgument(argv, m) ==
  IF Len(argv) > 1 THEN [status |-> 1, raised |-> "", mem |-> m]
  ELSE [status |-> 0, raised |-> "IndexError", mem |-> m]

\* Shift
ShiftResult(argv, m) ==
  IF Len(argv) > 1 THEN [status |-> 1, raised |-> "", mem |-> m]
  ELSE IF argv = <<>> THEN MemShift(m, 1)
  ELSE IF ~IsInt(argv[1]) THEN InvalidShiftArgument(argv, m)
  ELSE MemShift(m, IntOf(argv[1]))

\* the most calls of shift, set and shopt
MaxShiftCalls == 2

\* the arguments of a call of shift
ShiftWords == {<<"0">>, <<"1">>, <<"2">>, <<"9">>, <<" ", "1">>, <<"x">>, <<"1", "x">>, <<>>}
ShiftArgs == {<<>>, <<<<"1">>, <<"1">>>>} \cup {<<w>> : w \in ShiftWords}
MaxParams == 3

\* one call of shift
Shift ==
  /\ builtin.calls < MaxShiftCalls
  /\ builtin.raised = ""
  /\ \E argv \in ShiftArgs :
       LET r == ShiftResult(argv, mem)
           log == <<[argv_before |-> mem.argv]>>
       IN  /\ builtin' = IF r.raised # "" THEN Raises("shift", argv, r.raised, log)
                         ELSE Returns("shift", argv, r.status, log)
           /\ mem' = r.mem
           /\ stdout' = <<>>
  /\ UNCHANGED <<notBuiltin, funcs, flagsAndOpts, cwd, dir_stack>>

\* the name of the option of a letter
OptionOf(letter) == SET_OPTIONS[CHOOSE i \in 1..Len(SET_OPTIONS) : SET_OPTIONS[i][1] = letter][2]

\* SET_SPEC.Parse from argument i on: a dash or a plus and a letter turns an
\* option on or off, two dashes end the options and are passed over, and
\* another word ends them and stays
RECURSIVE SetParseFrom(_, _, _)
SetParseFrom(argv, i, opt_changes) ==
  IF i > Len(argv) THEN [opt_changes |-> opt_changes, saw_double_dash |-> FALSE, i |-> i]
  ELSE IF argv[i] = <<"-", "-">>
  THEN [opt_changes |-> opt_changes, saw_double_dash |-> TRUE, i |-> i + 1]
  ELSE IF Len(argv[i]) = 2 /\ argv[i][1] \in {"-", "+"}
  THEN SetParseFrom(argv, i + 1,
                    Append(opt_changes, <<OptionOf(argv[i][2]), argv[i][1] = "-">>))
  ELSE [opt_changes |-> opt_changes, saw_double_dash |-> FALSE, i |-> i]

\* exec_opts.SetOption and exec_opts.SetShoptOption
SetOption(opts, opt_name, b) == [opts EXCEPT ![opt_name] = b]
SetShoptOption(opts, opt_name, b) == [opts EXCEPT ![opt_name] = b]

\* SetExecOpts: the changes are made in order
RECURSIVE SetExecOpts(_, _)
SetExecOpts(opts, opt_changes) ==
  IF opt_changes = <<>> THEN opts
  ELSE SetExecOpts(SetOption(opts, opt_changes[1][1], opt_changes[1][2]), Tail(opt_changes))

\* Mem.SetArgv
MemSetArgv(m, argv) == [m EXCEPT !.argv = argv]

\* the options of all that are in names, or all for no names
Shown(all, names) ==
  IF names = <<>> THEN all
  ELSE SelectSeq(all, LAMBDA o : \E i \in 1..Len(names) : names[i] = o)

\* exec_opts.ShowOptions(names): the options of set are shown with their
\* values, those named or all
ShowOptions(opts, names) ==
  LET all == [i \in 1..Len(SET_OPTIONS) |-> SET_OPTIONS[i][2]]
  IN  [i \in 1..Len(Shown(all, names)) |->
         [opt |-> Shown(all, names)[i], on |-> opts[Shown(all, names)[i]]]]

\* exec_opts.ShowShoptOptions(names): the same for the options of shopt
ShowShoptOptions(opts, names) ==
  [i \in 1..Len(Shown(SHOPT_OPTIONS, names)) |->
     [opt |-> Shown(SHOPT_OPTIONS, names)[i], on |-> opts[Shown(SHOPT_OPTIONS, names)[i]]]]

\* Set
SetResult(argv, opts, m) ==
  IF argv = <<>> THEN [status |-> 0, exec_opts |-> opts, mem |-> m, out |-> ShowOptions(opts, <<>>)]
  ELSE LET arg == SetParseFrom(argv, 1, <<>>)
           i == arg.i - 1
       IN  [status |-> 0, exec_opts |-> SetExecOpts(opts, arg.opt_changes),
            mem |-> IF arg.saw_double_dash \/ i # Len(argv)
                    THEN MemSetArgv(m, SubSeq(argv, i + 1, Len(argv))) ELSE m,
            out |-> <<>>]

\* the arguments of a call of set
SetArgs ==
  {<<>>, <<<<"-", "u">>>>, <<<<"+", "u">>>>, <<<<"-", "e">>, <<"-", "u">>>>, <<<<"-", "-">>>>,
   <<<<"-", "-">>, <<"q">>>>, <<<<"p">>, <<"q">>>>, <<<<"-", "e">>, <<"q">>>>,
   <<<<"-", "u">>, <<"-", "-">>>>, <<<<"p">>, <<"-", "u">>>>}

\* one call of set
Set ==
  /\ builtin.calls < MaxShiftCalls
  /\ builtin.raised = ""
  /\ \E argv \in SetArgs :
       LET r == SetResult(argv, exec_opts, mem)
       IN  /\ builtin' = Returns("set", argv, r.status, builtin.log)
           /\ exec_opts' = r.exec_opts
           /\ mem' = r.mem
           /\ stdout' = r.out
  /\ UNCHANGED <<notBuiltin, funcs, readonly, exported, declared, cwd, dir_stack>>

\* the loop of Shopt over the names from the k-th on
RECURSIVE ShoptFrom(_, _, _, _)
ShoptFrom(arg, b, k, opts) ==
  IF k > Len(arg.names) THEN opts
  ELSE ShoptFrom(arg, b, k + 1,
                 IF arg.o THEN SetOption(opts, arg.names[k], b)
                 ELSE SetShoptOption(opts, arg.names[k], b))

\* Shopt
ShoptResult(arg, opts) ==
  IF arg.p
  THEN [status |-> 0, raised |-> "", exec_opts |-> opts,
        out |-> IF arg.o THEN ShowOptions(opts, arg.names)
                ELSE ShowShoptOptions(opts, arg.names)]
  ELSE IF ~arg.s /\ ~arg.u
  THEN [status |-> 0, raised |-> "NotImplementedError", exec_opts |-> opts, out |-> <<>>]
  ELSE [status |-> 0, raised |-> "", exec_opts |-> ShoptFrom(arg, arg.s, 1, opts),
        out |-> <<>>]

\* the names of a call of shopt: options of set with -o, of shopt without
ShoptArgNames(o) ==
  IF o THEN {<<>>, <<"errexit">>, <<"nounset">>, <<"errexit", "nounset">>}
  ELSE {<<>>, <<"nullglob">>}

\* one call of shopt: the flags -s, -u, -o and -p as parsed, and the names
Shopt ==
  /\ builtin.calls < MaxShiftCalls
  /\ builtin.raised = ""
  /\ \E fs \in BOOLEAN, fu \in BOOLEAN, fo \in BOOLEAN, fp \in BOOLEAN :
       \E names \in ShoptArgNames(fo) :
         LET arg == [s |-> fs, u |-> fu, o |-> fo, p |-> fp, names |-> names]
             r == ShoptResult(arg, exec_opts)
         IN  /\ builtin' = IF r.raised # "" THEN Raises("shopt", arg, r.raised, builtin.log)
                           ELSE Returns("shopt", arg, r.status, builtin.log)
             /\ exec_opts' = r.exec_opts
             /\ stdout' = r.out
  /\ UNCHANGED <<notBuiltin, funcs, mem, readonly, exported, declared, cwd, dir_stack>>

\* any positional parameters
ShiftInit ==
  /\ BuiltinIdle
  /\ \E argv \in SeqsUpTo({<<"p">>, <<"q">>}, MaxParams) : mem = NewMem(argv, Str(<<"1">>))

\* C27: shift with one argument that is not an integer returns 1 and leaves
\* the positional parameters as they were; it raises no exception
C27_ShiftInvalid ==
  (builtin.name = "shift" /\ Len(builtin.argv) = 1 /\ ~IsInt(builtin.argv[1])) =>
    /\ builtin.raised = ""
    /\ builtin.status = 1
    /\ mem.argv = builtin.log[1].argv_before

\* what the code does in that case: IndexError, the parameters as they were
C27_Raises ==
  (builtin.name = "shift" /\ Len(builtin.argv) = 1 /\ ~IsInt(builtin.argv[1])) =>
    /\ builtin.raised = "IndexError"
    /\ mem.argv = builtin.log[1].argv_before

----------------------------------------------------------------------------
(* Specifications                                                          *)

\* the boolean parser, from a parser just made on any of the inputs
Init == ParserInit /\ ResolveIdle /\ MemIdle /\ GetOptsIdle /\ WaitIdle /\ ReadIdle /\ BuiltinIdle
Next == ParserNext
Spec == Init /\ [][Next]_vars

\* 'command' and 'type', from any set of functions, path list and file system
InitResolve == ResolveInit /\ ParserIdle /\ MemIdle /\ GetOptsIdle /\ WaitIdle /\ ReadIdle /\ BuiltinIdle
SpecResolve == InitResolve /\ [][ResolveNext]_vars

\* successive calls of getopts, from any positional arguments and value of OPTIND
InitGetOpts == GetOptsInit /\ ParserIdle /\ ResolveIdle /\ WaitIdle /\ ReadIdle /\ BuiltinIdle
SpecGetOpts == InitGetOpts /\ [][GetOptsNext]_vars

\* one call of wait, from any job table, with the children exiting in any order
InitWait == WaitInit /\ ParserIdle /\ ResolveIdle /\ GetOptsIdle /\ ReadIdle /\ BuiltinIdle
SpecWait == InitWait /\ [][WaitNextAction]_vars

\* one call of read, over any lines of at most MaxSpans spans in all
InitRead == ReadInit /\ ParserIdle /\ ResolveIdle /\ GetOptsIdle /\ WaitIdle /\ BuiltinIdle
SpecRead == InitRead /\ [][ReadNext]_vars

\* one call of echo, with any flags and arguments
InitEcho ==
  BuiltinIdle /\ ParserIdle /\ ResolveIdle /\ MemIdle /\ GetOptsIdle /\ WaitIdle /\ ReadIdle
SpecEcho == InitEcho /\ [][Echo]_vars

\* successive calls of unset and export, with any flags, names and words
InitUnset == UnsetInit /\ ParserIdle /\ GetOptsIdle /\ WaitIdle /\ ReadIdle
NextUnset == Unset \/ Export
SpecUnset == InitUnset /\ [][NextUnset]_vars

\* successive calls of cd, pushd, popd and dirs, from any directory and values of OLDPWD and HOME
InitCd == CdInit /\ ParserIdle /\ ResolveIdle /\ GetOptsIdle /\ WaitIdle /\ ReadIdle
NextCd == Cd \/ Pushd \/ Popd \/ Dirs
SpecCd == InitCd /\ [][NextCd]_vars

\* successive calls of shift, set and shopt, with any positional parameters and
\* arguments
InitShift == ShiftInit /\ ParserIdle /\ ResolveIdle /\ GetOptsIdle /\ WaitIdle /\ ReadIdle
NextShift == Shift \/ Set \/ Shopt
SpecShift == InitShift /\ [][NextShift]_vars

====
